---------------------------- MODULE Spec2Model ----------------------------
(***************************************************************************)
(* A model of the PR analysis pipeline of dev-assist-mcp                   *)
(* (app/tools/analyse_pr.py with its configuration, app/config.py).        *)
(*                                                                         *)
(* Text is modelled as Python models it: a str is a sequence of            *)
(* one-character strings, so split, strip, startswith, lower, slicing and  *)
(* the substring test are computed character by character.                 *)
(*                                                                         *)
(* Scores are Python floats in the code.  Here they are fixed-point        *)
(* numbers, One (= 1.0) being 6000 units: every weight of the model is a   *)
(* multiple of 0.1, so weight * 0.1 is a multiple of 60 units and the      *)
(* division by the number of files (at most 6) is exact.  The model is of  *)
(* the decimal arithmetic the code writes, not of binary rounding.         *)
(***************************************************************************)
EXTENDS Integers, Sequences, FiniteSets, TLC

(***************************************************************************)
(* Python str and list operations                                          *)
(***************************************************************************)
Min(a, b) == IF a <= b THEN a ELSE b

Max(a, b) == IF a >= b THEN a ELSE b

UpperChars ==
    <<"A","B","C","D","E","F","G","H","I","J","K","L","M",
      "N","O","P","Q","R","S","T","U","V","W","X","Y","Z">>

LowerChars ==
    <<"a","b","c","d","e","f","g","h","i","j","k","l","m",
      "n","o","p","q","r","s","t","u","v","w","x","y","z">>

\* the lower-case letter of each upper-case letter
LowerOf ==
    [u \in {UpperChars[i] : i \in 1..26} |->
        LowerChars[CHOOSE i \in 1..26 : UpperChars[i] = u]]

\* str.lower() on one character
LowerChar(c) == IF c \in DOMAIN LowerOf THEN LowerOf[c] ELSE c

\* str.lower()
Lower(s) == [i \in 1..Len(s) |-> LowerChar(s[i])]

\* the characters str.strip() and the regular expression \s take as whitespace
Whitespace == {" ", "\n", "\t", "\r"}

\* s[n:]
Drop(s, n) == SubSeq(s, n + 1, Len(s))

\* s[:n]
Take(s, n) == SubSeq(s, 1, Min(n, Len(s)))

\* s.startswith(p)
StartsWith(s, p) == Len(s) >= Len(p) /\ SubSeq(s, 1, Len(p)) = p

\* s.endswith(p)
EndsWith(s, p) == Len(s) >= Len(p) /\ SubSeq(s, Len(s) - Len(p) + 1, Len(s)) = p

\* p in s
Contains(s, p) ==
    \E hay \in {s}, needle \in {p} :
        \E i \in 0..(Len(hay) - Len(needle)) : SubSeq(hay, i + 1, i + Len(needle)) = needle

\* s.strip()
Strip(s) ==
    IF \A i \in 1..Len(s) : s[i] \in Whitespace
    THEN <<>>
    ELSE LET first == CHOOSE i \in 1..Len(s) :
                         s[i] \notin Whitespace /\ \A j \in 1..(i - 1) : s[j] \in Whitespace
             last  == CHOOSE i \in 1..Len(s) :
                         s[i] \notin Whitespace /\ \A j \in (i + 1)..Len(s) : s[j] \in Whitespace
         IN  SubSeq(s, first, last)

\* s.split(sep) for a one-character separator: never empty, keeps empty pieces
Split(s, sep) ==
    LET cuts    == { i \in 1..Len(s) : s[i] = sep } \cup {0, Len(s) + 1}
        nth(k)  == CHOOSE c \in cuts : Cardinality({ d \in cuts : d < c }) = k
    IN  [ k \in 1..(Cardinality(cuts) - 1) |-> SubSeq(s, nth(k - 1) + 1, nth(k) - 1) ]

\* sep.join(parts)
RECURSIVE Join(_, _)
Join(parts, sep) ==
    IF parts = <<>> THEN <<>>
    ELSE IF Len(parts) = 1 THEN parts[1]
    ELSE parts[1] \o sep \o Join(Tail(parts), sep)

Digits == <<"0","1","2","3","4","5","6","7","8","9">>

\* str(n) for a natural number, as an f-string formats it
RECURSIVE IntToStr(_)
IntToStr(n) ==
    IF n < 10 THEN <<Digits[n + 1]>>
    ELSE IntToStr(n \div 10) \o <<Digits[(n % 10) + 1]>>

\* x in list
InList(x, list) == \E i \in 1..Len(list) : list[i] = x

(***************************************************************************)
(* String literals of the source                                           *)
(***************************************************************************)
DiffMarker ==
    <<"d","i","f","f"," ","-","-","g","i","t">>
MsgEmpty ==
    <<"P","R"," ","d","i","f","f"," ","t","e","x","t"," ","i","s"," ","e","m","p","t","y">>
MsgWhitespace ==
    <<"P","R"," ","d","i","f","f"," ","t","e","x","t"," ","c","o","n","t","a","i","n","s"," ",
      "o","n","l","y"," ","w","h","i","t","e","s","p","a","c","e">>
MsgTooLargeHead ==
    <<"P","R"," ","d","i","f","f"," ","t","o","o"," ","l","a","r","g","e"," ","(">>
MsgTooLargeMid ==
    <<" ","c","h","a","r","s",")","."," ","M","a","x","i","m","u","m"," ">>
MsgTooLargeTail ==
    <<" ","c","h","a","r","a","c","t","e","r","s",".">>
MsgNoHeader ==
    <<"I","n","v","a","l","i","d"," ","P","R"," ","d","i","f","f"," ","f","o","r","m","a","t",
      " ","-"," ","m","i","s","s","i","n","g"," ","'","d","i","f","f"," ","-","-","g","i","t",
      "'"," ","h","e","a","d","e","r">>
MsgValid ==
    <<"V","a","l","i","d"," ","i","n","p","u","t">>

\* None
None == <<"<None>">>

\* bool(s) of an Optional[str]
Truthy(s) == s # None /\ s # <<>>

(***************************************************************************)
(* Fixed-point numbers: One is the float 1.0                               *)
(***************************************************************************)
One == 6000

\* the float t / 10, for the weights the configuration writes (0.2, 1.3, ...)
Tenths(t) == t * (One \div 10)

\* x * 0.1
TimesTenth(x) == x \div 10

(***************************************************************************)
(* Configuration (app/config.py).  A dict is the sequence of its items in  *)
(* insertion order, which is the order Python iterates it in.              *)
(***************************************************************************)
\* OllamaConfig.__post_init__: the default backend list
DefaultModels == <<"llama3.2:3b", "qwen2.5-coder:1.5b", "tinyllama">>

\* AnalysisConfig.__post_init__: the default risk_keywords
DefaultRiskKeywords ==
    << [keyword |-> <<"T","O","D","O">>,       weight |-> Tenths(2)],
       [keyword |-> <<"F","I","X","M","E">>,      weight |-> Tenths(3)],
       [keyword |-> <<"H","A","C","K">>,       weight |-> Tenths(4)],
       [keyword |-> <<"X","X","X">>,        weight |-> Tenths(3)],
       [keyword |-> <<"p","a","s","s","w","o","r","d">>,   weight |-> Tenths(6)],
       [keyword |-> <<"s","e","c","r","e","t">>,     weight |-> Tenths(6)],
       [keyword |-> <<"a","p","i","_","k","e","y">>,    weight |-> Tenths(6)],
       [keyword |-> <<"t","o","k","e","n">>,      weight |-> Tenths(4)],
       [keyword |-> <<"e","v","a","l","(">>,      weight |-> Tenths(7)],
       [keyword |-> <<"e","x","e","c","(">>,      weight |-> Tenths(7)],
       [keyword |-> <<"o","s",".","s","y","s","t","e","m">>,  weight |-> Tenths(8)],
       [keyword |-> <<"s","u","b","p","r","o","c","e","s","s">>, weight |-> Tenths(4)],
       [keyword |-> <<"s","h","e","l","l","=","T","r","u","e">>, weight |-> Tenths(6)] >>

\* AnalysisConfig.__post_init__: the default file_type_weights
DefaultFileTypeWeights ==
    << [ext |-> <<".","p","y">>,   weight |-> Tenths(10)],
       [ext |-> <<".","j","s">>,   weight |-> Tenths(10)],
       [ext |-> <<".","t","s">>,   weight |-> Tenths(10)],
       [ext |-> <<".","j","a","v","a">>, weight |-> Tenths(10)],
       [ext |-> <<".","c","p","p">>,  weight |-> Tenths(10)],
       [ext |-> <<".","s","q","l">>,  weight |-> Tenths(13)],
       [ext |-> <<".","s","h">>,   weight |-> Tenths(13)],
       [ext |-> <<".","y","m","l">>,  weight |-> Tenths(8)],
       [ext |-> <<".","y","a","m","l">>, weight |-> Tenths(8)],
       [ext |-> <<".","j","s","o","n">>, weight |-> Tenths(8)],
       [ext |-> <<".","m","d">>,   weight |-> Tenths(5)],
       [ext |-> <<".","t","x","t">>,  weight |-> Tenths(5)] >>

\* the largest max_diff_size a modelled config.json sets (the default is 50000)
MaxDiffSize == 60

\* the longest backend list a modelled config.json sets
MaxModels == 2

\* PRAnalyzerConfig: what from_file builds from a config.json that sets
\* "ollama.models", "analysis.max_diff_size" and, when given, the two mappings
PRAnalyzerConfig(models, max_diff_size, risk_keywords, file_type_weights) ==
    [ollama   |-> [models |-> models],
     analysis |-> [max_diff_size     |-> max_diff_size,
                   risk_keywords     |-> risk_keywords,
                   file_type_weights |-> file_type_weights]]

\* a config.json whose "analysis.risk_keywords" gives a keyword a negative weight
\* (from_file passes the mapping to AnalysisConfig unvalidated)
NegativeRiskKeywords ==
    << [keyword |-> <<"T","O","D","O">>,  weight |-> Tenths(-3)],
       [keyword |-> <<"F","I","X","M","E">>, weight |-> Tenths(3)] >>

\* a config.json whose "analysis.file_type_weights" weighs one extension heavily
HeavyFileTypeWeights ==
    << [ext |-> <<".","p","y">>,  weight |-> Tenths(10)],
       [ext |-> <<".","s","q","l">>, weight |-> Tenths(120)] >>

\* the configurations from_file can return in the model
ConfigFiles ==
    { PRAnalyzerConfig(SubSeq(DefaultModels, 1, n), MaxDiffSize,
                       DefaultRiskKeywords, DefaultFileTypeWeights) : n \in 0..MaxModels }
    \cup { PRAnalyzerConfig(<<>>, MaxDiffSize, NegativeRiskKeywords, DefaultFileTypeWeights),
           PRAnalyzerConfig(<<>>, MaxDiffSize, DefaultRiskKeywords, HeavyFileTypeWeights) }

(***************************************************************************)
(* Inputs: the diff texts handed to analyze_pr                             *)
(***************************************************************************)
\* the most lines a modelled diff text has
MaxLines == 3

\* the lines a modelled diff text is made of: file headers (plain, a rename,
\* one without a filename), added lines (with one keyword, with a keyword in
\* another case, with two keywords, with none) and a blank line
LineChoices ==
    { <<"d","i","f","f"," ","-","-","g","i","t"," ","a","/","x",".","p","y"," ","b","/","x",".","p","y">>,
      <<"d","i","f","f"," ","-","-","g","i","t"," ","a","/","d",".","s","q","l"," ","b","/","d",".","m","d">>,
      <<"d","i","f","f"," ","-","-","g","i","t">>,
      <<"+","#"," ","T","O","D","O",":"," ","x">>,
      <<"+","#"," ","f","i","x","m","e">>,
      <<"+","t","o","k","e","n","=","p","a","s","s","w","o","r","d">>,
      <<"+","x"," ","="," ","1">>,
      <<" "," ">> }

\* the diff texts of the model: up to MaxLines lines joined by newlines
Inputs ==
    { Join(ls, <<"\n">>) : ls \in UNION { [1..n -> LineChoices] : n \in 0..MaxLines } }

(***************************************************************************)
(* State                                                                   *)
(***************************************************************************)
VARIABLES
    config_file,        \* what PRAnalyzerConfig.from_file() returns in this process
    _config,            \* config.py: the global configuration instance, None until loaded
    pr_diff_text,       \* analyze_pr's argument
    pc,                 \* where analyze_pr is: idle, validate, parse, score, llm, done
    analysis_metadata,  \* analyze_pr's analysis_metadata dict
    lines,              \* pr_diff_text.split("\n")
    line_no,            \* the index in lines of the next line of the for loop
    current_file,       \* the parser's cursor
    files_changed,
    notable_issues,
    summary,
    risk_score,
    suggested_tests,
    suggested_labels,
    model_no,           \* get_llm_summary: index in config.ollama.models of the next model
    metadata,           \* get_llm_summary's metadata dict
    requests,           \* the generation requests posted so far, in order, each with
                        \* how the backend answered it
    narrative,          \* where the returned review came from: none, backend, fallback
    result,             \* what analyze_pr returned
    raised,             \* an exception left analyze_pr
    calls,              \* how many times analyze_pr has been entered in this process
    previous,           \* the compared fields of what the previous invocation returned
    loads,              \* how many times PRAnalyzerConfig.from_file() has read the file
    config_id,          \* which instance _config holds: 0 for None, else the number of
                        \* the from_file() call that made it
    threads,            \* the threads inside get_config(): where each is, the instance
                        \* it made, the instance it returned
    raw_response,       \* a text handed to clean_ai_response
    cleaned_result,     \* what clean_ai_response returned for it
    answers             \* what the backends are going to answer in this invocation,
                        \* when that is settled beforehand

vars ==
    << config_file, _config, pr_diff_text, pc, analysis_metadata, lines, line_no,
       current_file, files_changed, notable_issues, summary, risk_score,
       suggested_tests, suggested_labels, model_no, metadata, requests, narrative,
       result, raised, calls, previous, loads, config_id, threads, raw_response,
       cleaned_result, answers >>

\* _config: Optional[PRAnalyzerConfig] = None
NoConfig == [loaded |-> FALSE]

\* no value returned yet
NoResult == [returned |-> FALSE]

\* d[k] = v on a dict
Put(d, k, v) == (k :> v) @@ d

\* the backends' answers are not settled beforehand: each answers as it may
Unscripted == [scripted |-> FALSE]

\* an empty dict
EmptyDict == [x \in {} |-> None]

\* the most threads that enter get_config() at once
MaxThreads == 2

Threads == 1..MaxThreads

\* the process has started: nothing is loaded, nothing has been called
Started ==
    /\ _config = NoConfig
    /\ pc = "idle"
    /\ analysis_metadata = EmptyDict
    /\ lines = <<>>
    /\ line_no = 1
    /\ current_file = None
    /\ files_changed = <<>>
    /\ notable_issues = <<>>
    /\ summary = <<>>
    /\ risk_score = 0
    /\ suggested_tests = <<>>
    /\ suggested_labels = <<>>
    /\ model_no = 1
    /\ metadata = EmptyDict
    /\ requests = <<>>
    /\ narrative = "none"
    /\ result = NoResult
    /\ raised = FALSE
    /\ calls = 0
    /\ previous = NoResult
    /\ loads = 0
    /\ config_id = 0
    /\ threads = [t \in Threads |-> [pc |-> "idle", made |-> 0, got |-> 0]]
    /\ cleaned_result = None

Init ==
    /\ config_file \in ConfigFiles
    /\ pr_diff_text \in Inputs
    /\ raw_response = None
    /\ answers = Unscripted
    /\ Started

(***************************************************************************)
(* config.py                                                               *)
(***************************************************************************)
\* get_config(): the instance after the call (loaded on first use)
get_config(cfg) == IF cfg = NoConfig THEN config_file ELSE cfg

(***************************************************************************)
(* validate_pr_input                                                       *)
(***************************************************************************)
\* the message of the size check, an f-string
MsgTooLarge(n, max) ==
    MsgTooLargeHead \o IntToStr(n) \o MsgTooLargeMid \o IntToStr(max) \o MsgTooLargeTail

\* validate_pr_input without its size check
validate_pr_input_NoSizeCheck(text, config) ==
    IF text = <<>> THEN <<FALSE, MsgEmpty>>
    ELSE IF Strip(text) = <<>> THEN <<FALSE, MsgWhitespace>>
    ELSE IF ~Contains(text, DiffMarker) THEN <<FALSE, MsgNoHeader>>
    ELSE <<TRUE, MsgValid>>

\* validate_pr_input looking for the header before it looks at the size
validate_pr_input_HeaderFirst(text, config) ==
    IF text = <<>> THEN <<FALSE, MsgEmpty>>
    ELSE IF Strip(text) = <<>> THEN <<FALSE, MsgWhitespace>>
    ELSE IF ~Contains(text, DiffMarker) THEN <<FALSE, MsgNoHeader>>
    ELSE IF Len(text) > config.analysis.max_diff_size
         THEN <<FALSE, MsgTooLarge(Len(text), config.analysis.max_diff_size)>>
    ELSE <<TRUE, MsgValid>>

\* validate_pr_input(pr_diff_text): the pair (is_valid, validation_msg)
validate_pr_input(text, config) ==
    IF text = <<>> THEN <<FALSE, MsgEmpty>>
    ELSE IF Strip(text) = <<>> THEN <<FALSE, MsgWhitespace>>
    ELSE IF Len(text) > config.analysis.max_diff_size
         THEN <<FALSE, MsgTooLarge(Len(text), config.analysis.max_diff_size)>>
    ELSE IF ~Contains(text, DiffMarker) THEN <<FALSE, MsgNoHeader>>
    ELSE <<TRUE, MsgValid>>

(***************************************************************************)
(* calculate_risk_score                                                    *)
(***************************************************************************)
\* base_risk = 0.1
BaseRisk == Tenths(1)

\* PurePath.name: the last component of the path
PathName(path) ==
    IF \A i \in 1..Len(path) : path[i] # "/" THEN path
    ELSE LET k == CHOOSE i \in 1..Len(path) :
                      path[i] = "/" /\ \A j \in (i + 1)..Len(path) : path[j] # "/"
         IN  Drop(path, k)

\* Path(file_path).suffix: from the last dot of the name, unless the name
\* starts or ends with that dot
PathSuffix(path) ==
    LET name == PathName(path)
    IN  IF \A i \in 1..Len(name) : name[i] # "." THEN <<>>
        ELSE LET k == CHOOSE i \in 1..Len(name) :
                          name[i] = "." /\ \A j \in (i + 1)..Len(name) : name[j] # "."
             IN  IF 1 < k /\ k < Len(name) THEN Drop(name, k - 1) ELSE <<>>

\* config.analysis.file_type_weights.get(file_ext, 1.0)
FileTypeWeight(config, file_ext) ==
    LET items == config.analysis.file_type_weights
        dict  == [ ext \in { items[i].ext : i \in 1..Len(items) } |->
                     items[CHOOSE i \in 1..Len(items) : items[i].ext = ext].weight ]
    IN  IF file_ext \in DOMAIN dict THEN dict[file_ext] ELSE One

\* the loop over notable_issues: issue_risk += issue.get('risk_weight', 0.2)
RECURSIVE IssueRisk(_)
IssueRisk(issues) ==
    IF issues = <<>> THEN 0
    ELSE (IF "risk_weight" \in DOMAIN Head(issues)
          THEN Head(issues).risk_weight ELSE Tenths(2))
         + IssueRisk(Tail(issues))

\* the loop over files_changed: file_risk += weight * 0.1
RECURSIVE FileRisk(_, _)
FileRisk(files, config) ==
    IF files = <<>> THEN 0
    ELSE TimesTenth(FileTypeWeight(config, Lower(PathSuffix(Head(files)))))
         + FileRisk(Tail(files), config)

\* total_risk, before the cap
TotalRisk(files, issues, config) ==
    BaseRisk + IssueRisk(issues)
    + (IF files # <<>> THEN FileRisk(files, config) \div Len(files) ELSE 0)

\* calculate_risk_score with the file risk summed, not averaged
calculate_risk_score_NoAverage(files, issues, config) ==
    Min(BaseRisk + IssueRisk(issues) + FileRisk(files, config), One)

\* calculate_risk_score(files_changed, notable_issues)
calculate_risk_score(files, issues, config) ==
    Min(TotalRisk(files, issues, config), One)

(***************************************************************************)
(* The diff parser: one iteration of analyze_pr's loop over the lines      *)
(***************************************************************************)
IssueHead ==
    <<"C","o","n","t","a","i","n","s"," ">>
IssueTail ==
    <<" ","i","n"," ","a","d","d","e","d"," ","l","i","n","e","s">>

\* line.strip()[:100]
LinePreviewLen == 100

\* the finding appended for a keyword match
Finding(file, line, kw) ==
    [file         |-> file,
     issue        |-> IssueHead \o kw.keyword \o IssueTail,
     line_preview |-> Take(Strip(line), LinePreviewLen),
     risk_weight  |-> kw.weight,
     keyword      |-> kw.keyword]

\* the indices of the configured keywords the line contains, case-insensitively
MatchingKeywords(line, config) ==
    LET line_lower == Lower(line)
    IN  { i \in 1..Len(config.analysis.risk_keywords) :
              Contains(line_lower, Lower(config.analysis.risk_keywords[i].keyword)) }

\* a scan that goes on after a match, so that the last matching keyword wins
FirstMatch_Last(line, config) ==
    LET m == MatchingKeywords(line, config)
    IN  config.analysis.risk_keywords[CHOOSE i \in m : \A j \in m : i >= j]

\* the first keyword of the dict's iteration that matches (the loop breaks there)
FirstMatch(line, config) ==
    LET m == MatchingKeywords(line, config)
    IN  config.analysis.risk_keywords[CHOOSE i \in m : \A j \in m : i <= j]

\* a header branch that appends the file without looking whether it is listed
ParseHeader_AlwaysAppend(line, st) ==
    LET parts == Split(line, " ")
    IN  IF Len(parts) >= 3
        THEN [st EXCEPT !.current_file = Drop(parts[3], 2),
                        !.files_changed = Append(st.files_changed, Drop(parts[3], 2))]
        ELSE st

\* the header branch: parts[2][2:] becomes the cursor and is appended when new
ParseHeader(line, st) ==
    LET parts == Split(line, " ")
    IN  IF Len(parts) >= 3
        THEN LET file == Drop(parts[3], 2)
             IN  [st EXCEPT !.current_file = file,
                            !.files_changed =
                                IF InList(file, st.files_changed) THEN st.files_changed
                                ELSE Append(st.files_changed, file)]
        ELSE st

\* an added-line branch that reports a finding for every added line of a file,
\* under the first configured keyword when the line matches none
ParseAdded_NoKeywordCheck(line, st, config) ==
    [st EXCEPT !.notable_issues =
         Append(st.notable_issues,
                Finding(st.current_file, line,
                        IF MatchingKeywords(line, config) # {}
                        THEN FirstMatch(line, config)
                        ELSE config.analysis.risk_keywords[1]))]

\* an added-line branch that assigns the finding instead of appending it
ParseAdded_Assign(line, st, config) ==
    IF MatchingKeywords(line, config) # {}
    THEN [st EXCEPT !.notable_issues =
              << Finding(st.current_file, line, FirstMatch(line, config)) >>]
    ELSE st

\* the added-line branch: one finding for the first matching keyword
ParseAdded(line, st, config) ==
    IF MatchingKeywords(line, config) # {}
    THEN [st EXCEPT !.notable_issues =
              Append(st.notable_issues,
                     Finding(st.current_file, line, FirstMatch(line, config)))]
    ELSE st

\* a loop body that scans added lines whether or not a file is current
ParseLine_NoCursorCheck(line, st, config) ==
    IF StartsWith(line, DiffMarker) THEN ParseHeader(line, st)
    ELSE IF StartsWith(line, <<"+">>)
         THEN ParseAdded(line, st, config)
    ELSE st

\* the body of "for line in lines": st is (current_file, files_changed, notable_issues)
ParseLine(line, st, config) ==
    IF StartsWith(line, DiffMarker) THEN ParseHeader(line, st)
    ELSE IF StartsWith(line, <<"+">>) /\ Truthy(st.current_file)
         THEN ParseAdded(line, st, config)
    ELSE st

\* the whole loop, from the given parser state
RECURSIVE ParseLines(_, _, _)
ParseLines(ls, st, config) ==
    IF ls = <<>> THEN st
    ELSE ParseLines(Tail(ls), ParseLine(Head(ls), st, config), config)

\* the parser state before the loop
ParseStart == [current_file |-> None, files_changed |-> <<>>, notable_issues |-> <<>>]

\* the parser's result for a whole text
ParseText(text, config) == ParseLines(Split(text, "\n"), ParseStart, config)

\* the risk_score of the result analyze_pr returns for a text: 0.0 when
\* validation rejects it, else the score of what the parser found
RiskScoreOf(text, config) ==
    IF validate_pr_input(text, config)[1]
    THEN LET parsed == ParseText(text, config)
         IN  calculate_risk_score(parsed.files_changed, parsed.notable_issues, config)
    ELSE 0

(***************************************************************************)
(* clean_ai_response                                                       *)
(***************************************************************************)
\* prefixes_to_remove, in order
PrefixesToRemove ==
    << <<"H","e","r","e"," ","i","s"," ","a"," ","c","o","n","c","i","s","e"," ","p","r","o","f","e","s","s","i","o","n","a","l"," ","c","o","d","e"," ","r","e","v","i","e","w",":">>,
       <<"H","e","r","e","'","s"," ","a"," ","c","o","n","c","i","s","e"," ","p","r","o","f","e","s","s","i","o","n","a","l"," ","c","o","d","e"," ","r","e","v","i","e","w",":">>,
       <<"H","e","r","e"," ","i","s"," ","a"," ","p","r","o","f","e","s","s","i","o","n","a","l"," ","a","s","s","e","s","s","m","e","n","t",":">>,
       <<"H","e","r","e","'","s"," ","m","y"," ","c","o","d","e"," ","r","e","v","i","e","w",":">>,
       <<"B","a","s","e","d"," ","o","n"," ","t","h","e"," ","P","R"," ","d","i","f","f",":">>,
       <<"L","o","o","k","i","n","g"," ","a","t"," ","t","h","i","s"," ","P","R",":">> >>

\* the loop over the prefixes: each one the response starts with is cut off
\* and the rest stripped
RECURSIVE RemovePrefixes(_, _)
RemovePrefixes(response, prefixes) ==
    IF prefixes = <<>> THEN response
    ELSE RemovePrefixes(IF StartsWith(response, Head(prefixes))
                        THEN Strip(Drop(response, Len(Head(prefixes))))
                        ELSE response,
                        Tail(prefixes))

\* endings_to_remove: the pattern head.*tail.*$ is (head, tail)
EndingsToRemove ==
    << [head |-> <<"N","o","t","e",":">>,    tail |-> <<>>],
       [head |-> <<"O","v","e","r","a","l","l">>,  tail |-> <<"r","e","c","o","m","m","e","n","d","a","t","i","o","n">>],
       [head |-> <<"I","'","v","e"," ","k","e","p","t">>, tail |-> <<"c","o","n","c","i","s","e">>] >>

\* where head.*tail.*$ matches in one line, ignoring case: the start positions
EndingStarts(line, pat) ==
    { i \in 1..Len(line) :
          /\ StartsWith(Lower(Drop(line, i - 1)), Lower(pat.head))
          /\ Contains(Lower(Drop(line, i - 1 + Len(pat.head))), Lower(pat.tail)) }

\* re.sub(pattern, "", line): the leftmost match runs to the end of the line
CutEnding(line, pat) ==
    LET m == EndingStarts(line, pat)
    IN  IF m = {} THEN line
        ELSE Take(line, (CHOOSE i \in m : \A j \in m : i <= j) - 1)

\* re.sub(pattern, "", response, flags=IGNORECASE | MULTILINE): "." stops at a
\* newline and "$" matches before one, so each line is cut on its own
ReSubEnding(response, pat) ==
    LET ls == Split(response, "\n")
    IN  Join([i \in 1..Len(ls) |-> CutEnding(ls[i], pat)], <<"\n">>)

\* the loop over the endings, each followed by strip()
RECURSIVE RemoveEndings(_, _)
RemoveEndings(response, pats) ==
    IF pats = <<>> THEN response
    ELSE RemoveEndings(Strip(ReSubEnding(response, Head(pats))), Tail(pats))

\* re.sub(r'\s+', ' ', response)
RECURSIVE CollapseWhitespace(_)
CollapseWhitespace(s) ==
    IF s = <<>> THEN <<>>
    ELSE IF Head(s) \in Whitespace
         THEN IF Len(s) >= 2 /\ s[2] \in Whitespace
              THEN CollapseWhitespace(Tail(s))
              ELSE <<" ">> \o CollapseWhitespace(Tail(s))
    ELSE <<Head(s)>> \o CollapseWhitespace(Tail(s))

\* re.sub(r'\.\s*\.', '.', response): matches do not overlap
RECURSIVE CollapseDots(_)
CollapseDots(s) ==
    IF s = <<>> THEN <<>>
    ELSE IF /\ Head(s) = "."
            /\ \E j \in 2..Len(s) : s[j] = "." /\ \A k \in 2..(j - 1) : s[k] \in Whitespace
         THEN LET j == CHOOSE j \in 2..Len(s) :
                           s[j] = "." /\ \A k \in 2..(j - 1) : s[k] \in Whitespace
              IN  <<".">> \o CollapseDots(Drop(s, j))
    ELSE <<Head(s)>> \o CollapseDots(Tail(s))

\* a final step that appends a period whatever the text ends in
EnsureTerminal_Always(s) == IF s # <<>> THEN s \o <<".">> ELSE s

\* the final step: a period is appended unless the text is empty or ends in . ! ?
EnsureTerminal(s) ==
    IF s # <<>> /\ s[Len(s)] \notin {".", "!", "?"} THEN s \o <<".">> ELSE s

\* a clean_ai_response that returns the text as it came
clean_ai_response_Identity(response) == response

\* clean_ai_response(response)
clean_ai_response(response) ==
    EnsureTerminal(
        CollapseDots(
            CollapseWhitespace(
                RemoveEndings(RemovePrefixes(response, PrefixesToRemove),
                              EndingsToRemove))))

(***************************************************************************)
(* generate_intelligent_fallback                                           *)
(***************************************************************************)
FallbackHead ==
    <<"T","h","i","s"," ","P","R"," ","m","o","d","i","f","i","e","s"," ">>
FallbackFiles ==
    <<" ","f","i","l","e","(","s",")">>
FallbackContains ==
    <<" ","a","n","d"," ","c","o","n","t","a","i","n","s"," ">>
FallbackHighIssues ==
    <<" ","h","i","g","h","-","r","i","s","k"," ","i","s","s","u","e","(","s",")">>
FallbackIssues ==
    <<" ","i","s","s","u","e","(","s",")">>
FallbackHigh ==
    <<"."," ","H","i","g","h"," ","r","i","s","k"," ","-"," ","r","e","q","u","i","r","e","s",
      " ","s","e","c","u","r","i","t","y"," ","r","e","v","i","e","w",".">>
FallbackMedium ==
    <<"."," ","M","e","d","i","u","m"," ","r","i","s","k"," ","-"," ","c","a","r","e","f","u",
      "l"," ","r","e","v","i","e","w"," ","r","e","c","o","m","m","e","n","d","e","d",".">>
FallbackLow ==
    <<"."," ","L","o","w"," ","r","i","s","k"," ","-"," ","s","t","a","n","d","a","r","d"," ",
      "r","e","v","i","e","w"," ","p","r","o","c","e","s","s",".">>

\* [i for i in issues if i.get('risk_weight', 0) > 0.5]
HighRiskIssues(issues) ==
    SelectSeq(issues,
              LAMBDA i : (IF "risk_weight" \in DOMAIN i THEN i.risk_weight ELSE 0)
                         > Tenths(5))

\* a narrative that gives the issue count whether or not there are issues
generate_intelligent_fallback_AlwaysCount(analysis_data) ==
    LET files  == analysis_data.files_changed
        issues == analysis_data.notable_issues
        score  == analysis_data.risk_score
    IN  FallbackHead \o IntToStr(Len(files)) \o FallbackFiles
        \o (IF HighRiskIssues(issues) # <<>>
            THEN FallbackContains \o IntToStr(Len(HighRiskIssues(issues)))
                 \o FallbackHighIssues
            ELSE FallbackContains \o IntToStr(Len(issues)) \o FallbackIssues)
        \o (IF score > Tenths(7) THEN FallbackHigh
            ELSE IF score > Tenths(3) THEN FallbackMedium
            ELSE FallbackLow)

\* generate_intelligent_fallback(analysis_data)
generate_intelligent_fallback(analysis_data) ==
    LET files  == analysis_data.files_changed
        issues == analysis_data.notable_issues
        score  == analysis_data.risk_score
    IN  FallbackHead \o IntToStr(Len(files)) \o FallbackFiles
        \o (IF issues # <<>>
            THEN IF HighRiskIssues(issues) # <<>>
                 THEN FallbackContains \o IntToStr(Len(HighRiskIssues(issues)))
                      \o FallbackHighIssues
                 ELSE FallbackContains \o IntToStr(Len(issues)) \o FallbackIssues
            ELSE <<>>)
        \o (IF score > Tenths(7) THEN FallbackHigh
            ELSE IF score > Tenths(3) THEN FallbackMedium
            ELSE FallbackLow)

(***************************************************************************)
(* get_llm_summary: the prompt, the metadata, one request per model        *)
(***************************************************************************)
IssuesContextHead ==
    <<"\n","I","s","s","u","e","s"," ","d","e","t","e","c","t","e","d",":"," ">>
ErrConnection ==
    <<"C","o","n","n","e","c","t","i","o","n"," ","f","a","i","l","e","d">>
ErrTimeout ==
    <<"T","i","m","e","o","u","t">>
ErrHttpHead ==
    <<"H","T","T","P"," ">>
ErrNoResponseKey ==
    <<"'","r","e","s","p","o","n","s","e","'">>

\* response_time: the seconds elapsed, whose value the model leaves open
Elapsed == <<"<seconds>">>

\* a risk label with the thresholds taken inclusively
RiskLevel_Inclusive(score) ==
    IF score >= Tenths(7) THEN "high" ELSE IF score >= Tenths(3) THEN "medium" ELSE "low"

\* "high" if risk_score > 0.7 else "medium" if risk_score > 0.3 else "low"
RiskLevel(score) ==
    IF score > Tenths(7) THEN "high" ELSE IF score > Tenths(3) THEN "medium" ELSE "low"

\* issues_context: the issue texts joined by ", ", or empty without issues
IssuesContext(issues) ==
    IF issues # <<>>
    THEN IssuesContextHead
         \o Join([i \in 1..Len(issues) |-> issues[i].issue], <<",", " ">>)
    ELSE <<>>

\* the prompt, by the values its f-string embeds
Prompt(text, analysis_data) ==
    [files_changed  |-> Join(analysis_data.files_changed, <<",", " ">>),
     risk_level     |-> RiskLevel(analysis_data.risk_score),
     issues_context |-> IssuesContext(analysis_data.notable_issues),
     pr_diff        |-> text]

\* the metadata dict get_llm_summary starts with
MetadataStart ==
    [llm_used |-> None, llm_success |-> FALSE, llm_error |-> None, response_time |-> None]

\* the "response" texts a backend answers with in the model
Responses ==
    { <<"L","o","o","k","s"," ","g","o","o","d",".">>,
      <<"H","e","r","e","'","s"," ","m","y"," ","c","o","d","e"," ","r","e","v","i","e","w",":"," ","A","d","d","s"," ","x",".","."," "," ","N","o","t","e",":"," ","y">>,
      <<" ","o","k","\n">>,
      <<>> }

\* result = response.json()['response'].strip() and clean_ai_response(result),
\* for each of these texts
CleanedResponse == [r \in Responses |-> clean_ai_response(Strip(r))]

\* the non-200 statuses a backend answers with in the model
ErrorStatuses == {404, 500}

(***************************************************************************)
(* analyze_pr                                                              *)
(***************************************************************************)
SummaryInvalid ==
    <<"A","n","a","l","y","s","i","s"," ","f","a","i","l","e","d"," ","d","u","e"," ","t","o",
      " ","i","n","v","a","l","i","d"," ","i","n","p","u","t">>
FileInput ==
    <<"i","n","p","u","t">>
ReviewInvalidHead ==
    <<"C","a","n","n","o","t"," ","a","n","a","l","y","z","e"," ","P","R",":"," ">>
SummaryHead ==
    <<"P","R"," ","c","h","a","n","g","e","s"," ","i","n"," ">>
SummaryTail ==
    <<" ","f","i","l","e","(","s",")",".">>
SummaryError ==
    <<"A","n","a","l","y","s","i","s"," ","e","n","c","o","u","n","t","e","r","e","d"," ","a",
      "n"," ","u","n","e","x","p","e","c","t","e","d"," ","e","r","r","o","r">>
FileError ==
    <<"e","r","r","o","r">>
FileSystem ==
    <<"s","y","s","t","e","m">>
IssueErrorHead ==
    <<"A","n","a","l","y","s","i","s"," ","e","r","r","o","r",":"," ">>
ReviewError ==
    <<"P","R"," ","a","n","a","l","y","s","i","s"," ","f","a","i","l","e","d"," ","d","u","e",
      " ","t","o"," ","s","y","s","t","e","m"," ","e","r","r","o","r","."," ","M","a","n","u",
      "a","l"," ","r","e","v","i","e","w"," ","r","e","c","o","m","m","e","n","d","e","d",".">>

\* the AnalyzePROutput dataclass
AnalyzePROutput(sum, score, files, issues, tests, labels, review, meta) ==
    [summary               |-> sum,
     risk_score            |-> score,
     files_changed         |-> files,
     notable_issues        |-> issues,
     suggested_tests       |-> tests,
     suggested_labels      |-> labels,
     human_readable_review |-> review,
     analysis_metadata     |-> meta]

\* the result returned for an input validation rejects
InvalidOutput(validation_msg, meta) ==
    AnalyzePROutput(SummaryInvalid, 0, <<>>,
                    << [file |-> FileInput, issue |-> validation_msg] >>,
                    <<"Fix input format">>, <<"invalid-input">>,
                    ReviewInvalidHead \o validation_msg, meta)

\* a handler's result that keeps the files and findings parsed before e
ErrorOutput_KeepFindings(e, meta) ==
    AnalyzePROutput(SummaryError, Tenths(5), Append(files_changed, FileError),
                    Append(notable_issues,
                           [file |-> FileSystem, issue |-> IssueErrorHead \o e]),
                    <<"Manual review required">>, <<"analysis-failed">>,
                    ReviewError, meta)

\* the result returned by the handler of an unexpected exception e
ErrorOutput(e, meta) ==
    AnalyzePROutput(SummaryError, Tenths(5), <<FileError>>,
                    << [file |-> FileSystem, issue |-> IssueErrorHead \o e] >>,
                    <<"Manual review required">>, <<"analysis-failed">>,
                    ReviewError, meta)

\* suggested_tests, from the score
SuggestedTests(score) ==
    <<"Run unit tests">>
    \o (IF score > Tenths(3) THEN <<"Run integration tests">> ELSE <<>>)
    \o (IF score > Tenths(5) THEN <<"Security review required">> ELSE <<>>)

\* suggested_labels with the threshold taken inclusively
SuggestedLabels_Inclusive(score, issues) ==
    IF score >= Tenths(7) THEN <<"high-risk", "security-review">>
    ELSE IF issues # <<>> THEN <<"needs-review">> ELSE <<"approved">>

\* suggested_labels, from the findings and then the score
SuggestedLabels(score, issues) ==
    IF score > Tenths(7) THEN <<"high-risk", "security-review">>
    ELSE IF issues # <<>> THEN <<"needs-review">> ELSE <<"approved">>

\* analysis_data, the dict handed to get_llm_summary
AnalysisData ==
    [files_changed  |-> files_changed,
     risk_score     |-> risk_score,
     notable_issues |-> notable_issues,
     summary        |-> summary]

\* the result returned after get_llm_summary returned (review, llm_metadata)
NormalOutput(review, llm_metadata) ==
    AnalyzePROutput(summary, risk_score, files_changed, notable_issues,
                    suggested_tests, suggested_labels, review,
                    Put(analysis_metadata, "llm_metadata", llm_metadata))

\* analyze_pr is entered: get_config() and the initial analysis_metadata
Call ==
    /\ pc = "idle"
    /\ calls' = calls + 1
    /\ _config' = get_config(_config)
    /\ loads' = IF _config = NoConfig THEN loads + 1 ELSE loads
    /\ config_id' = IF _config = NoConfig THEN loads + 1 ELSE config_id
    /\ analysis_metadata' =
           [input_valid     |-> FALSE,
            parsing_success |-> FALSE,
            llm_metadata    |-> EmptyDict,
            config_used     |->
                [models              |-> _config'.ollama.models,
                 max_diff_size       |-> _config'.analysis.max_diff_size,
                 risk_keywords_count |-> Len(_config'.analysis.risk_keywords)]]
    /\ pc' = "validate"
    /\ UNCHANGED << answers, previous, threads, raw_response, cleaned_result,
                    config_file, pr_diff_text, lines, line_no, current_file,
                    files_changed, notable_issues, summary, risk_score,
                    suggested_tests, suggested_labels, model_no, metadata,
                    requests, narrative, result, raised >>

\* a rejection that records the error and goes on to parse the text
ValidateReject_GoOn ==
    /\ pc = "validate"
    /\ ~validate_pr_input(pr_diff_text, _config)[1]
    /\ analysis_metadata' = Put(analysis_metadata, "validation_error",
                                validate_pr_input(pr_diff_text, _config)[2])
    /\ files_changed' = <<>>
    /\ notable_issues' = <<>>
    /\ lines' = Split(pr_diff_text, "\n")
    /\ line_no' = 1
    /\ current_file' = None
    /\ pc' = "parse"
    /\ UNCHANGED << answers, calls, previous, loads, config_id, threads, raw_response,
                    cleaned_result,
                    config_file, _config, pr_diff_text, summary, risk_score,
                    suggested_tests, suggested_labels, model_no, metadata,
                    requests, narrative, result, raised >>

\* step 1, the input is rejected: the invalid-input result is returned
ValidateReject ==
    /\ pc = "validate"
    /\ LET checked == validate_pr_input(pr_diff_text, _config)
       IN  /\ ~checked[1]
           /\ analysis_metadata' = Put(analysis_metadata, "validation_error", checked[2])
           /\ result' = InvalidOutput(checked[2], analysis_metadata')
    /\ pc' = "done"
    /\ UNCHANGED << answers, calls, previous, loads, config_id, threads, raw_response,
                    cleaned_result,
                    config_file, _config, pr_diff_text, lines, line_no,
                    current_file, files_changed, notable_issues, summary,
                    risk_score, suggested_tests, suggested_labels, model_no,
                    metadata, requests, narrative, raised >>

\* the input is accepted, with files_changed and notable_issues kept from
\* one call to the next instead of being made anew
ValidateAccept_KeepLists ==
    /\ pc = "validate"
    /\ validate_pr_input(pr_diff_text, _config)[1]
    /\ analysis_metadata' = Put(analysis_metadata, "input_valid", TRUE)
    /\ lines' = Split(pr_diff_text, "\n")
    /\ line_no' = 1
    /\ current_file' = None
    /\ pc' = "parse"
    /\ UNCHANGED << answers, calls, previous, loads, config_id, threads, raw_response,
                    cleaned_result, files_changed, notable_issues,
                    config_file, _config, pr_diff_text, summary, risk_score,
                    suggested_tests, suggested_labels, model_no, metadata,
                    requests, narrative, result, raised >>

\* step 1, the input is accepted: the parser's locals are set up
ValidateAccept ==
    /\ pc = "validate"
    /\ validate_pr_input(pr_diff_text, _config)[1]
    /\ analysis_metadata' = Put(analysis_metadata, "input_valid", TRUE)
    /\ files_changed' = <<>>
    /\ notable_issues' = <<>>
    /\ lines' = Split(pr_diff_text, "\n")
    /\ line_no' = 1
    /\ current_file' = None
    /\ pc' = "parse"
    /\ UNCHANGED << answers, calls, previous, loads, config_id, threads, raw_response,
                    cleaned_result,
                    config_file, _config, pr_diff_text, summary, risk_score,
                    suggested_tests, suggested_labels, model_no, metadata,
                    requests, narrative, result, raised >>

\* step 2, one iteration of the loop over the lines
ParseStep ==
    /\ pc = "parse"
    /\ line_no <= Len(lines)
    /\ \E st \in { ParseLine(lines[line_no],
                              [current_file   |-> current_file,
                               files_changed  |-> files_changed,
                               notable_issues |-> notable_issues],
                              _config) } :
           /\ current_file' = st.current_file
           /\ files_changed' = st.files_changed
           /\ notable_issues' = st.notable_issues
    /\ line_no' = line_no + 1
    /\ UNCHANGED << answers, calls, previous, loads, config_id, threads, raw_response,
                    cleaned_result,
                    config_file, _config, pr_diff_text, pc, analysis_metadata,
                    lines, summary, risk_score, suggested_tests,
                    suggested_labels, model_no, metadata, requests, narrative, result, raised >>

\* the loop is over: the parse metadata, step 3 (summary, score, suggestions)
\* and the start of get_llm_summary
Score ==
    /\ pc = "parse"
    /\ line_no > Len(lines)
    /\ analysis_metadata' =
           Put(Put(Put(analysis_metadata, "parsing_success", TRUE),
                   "files_found", Len(files_changed)),
               "issues_found", Len(notable_issues))
    /\ summary' = SummaryHead \o IntToStr(Len(files_changed)) \o SummaryTail
    /\ risk_score' = calculate_risk_score(files_changed, notable_issues, _config)
    /\ suggested_tests' = SuggestedTests(risk_score')
    /\ suggested_labels' = SuggestedLabels(risk_score', notable_issues)
    /\ metadata' = MetadataStart
    /\ model_no' = 1
    /\ pc' = "llm"
    /\ UNCHANGED << answers, calls, previous, loads, config_id, threads, raw_response,
                    cleaned_result,
                    config_file, _config, pr_diff_text, lines, line_no,
                    current_file, files_changed, notable_issues, requests, narrative,
                    result, raised >>

\* the request posted to the model the loop is at, with the backend's answer:
\* outcome "ok" and the "response" text, or outcome "failed"
Request(outcome, response) ==
    [model    |-> _config.ollama.models[model_no],
     prompt   |-> Prompt(pr_diff_text, AnalysisData),
     outcome  |-> outcome,
     response |-> response]

\* a failing iteration that leaves the loop instead of continuing
ModelFails_Break(e) ==
    /\ pc = "llm"
    /\ model_no <= Len(_config.ollama.models)
    /\ requests' = Append(requests, Request("failed", None))
    /\ metadata' = [metadata EXCEPT !.llm_used = _config.ollama.models[model_no],
                                    !.llm_error = e]
    /\ model_no' = Len(_config.ollama.models) + 1
    /\ UNCHANGED << answers, calls, previous, loads, config_id, threads, raw_response,
                    cleaned_result,
                    config_file, _config, pr_diff_text, pc, analysis_metadata,
                    lines, line_no, current_file, files_changed, notable_issues,
                    summary, risk_score, suggested_tests, suggested_labels,
                    narrative, result, raised >>

\* a loop iteration that fails with llm_error e: on to the next model
ModelFails(e) ==
    /\ pc = "llm"
    /\ model_no <= Len(_config.ollama.models)
    /\ answers.scripted => answers.answer[model_no] = e
    /\ requests' = Append(requests, Request("failed", None))
    /\ metadata' = [metadata EXCEPT !.llm_used = _config.ollama.models[model_no],
                                    !.llm_error = e]
    /\ model_no' = model_no + 1
    /\ UNCHANGED << answers, calls, previous, loads, config_id, threads, raw_response,
                    cleaned_result,
                    config_file, _config, pr_diff_text, pc, analysis_metadata,
                    lines, line_no, current_file, files_changed, notable_issues,
                    summary, risk_score, suggested_tests, suggested_labels,
                    narrative, result, raised >>

\* a successful iteration that records the success but does not return
ModelSucceeds_NoReturn ==
    /\ pc = "llm"
    /\ model_no <= Len(_config.ollama.models)
    /\ \E response \in Responses :
          /\ requests' = Append(requests, Request("ok", response))
          /\ metadata' = [metadata EXCEPT !.llm_used = _config.ollama.models[model_no],
                                          !.llm_success = TRUE,
                                          !.response_time = Elapsed]
    /\ model_no' = model_no + 1
    /\ UNCHANGED << answers, calls, previous, loads, config_id, threads, raw_response,
                    cleaned_result,
                    config_file, _config, pr_diff_text, pc, analysis_metadata,
                    lines, line_no, current_file, files_changed, notable_issues,
                    summary, risk_score, suggested_tests, suggested_labels,
                    narrative, result, raised >>

\* the model answers 200 with a "response": get_llm_summary returns the cleaned
\* text and analyze_pr returns the normal result
\* a success that wipes the error an earlier backend left in the metadata
ModelSucceeds_ClearError ==
    /\ pc = "llm"
    /\ model_no <= Len(_config.ollama.models)
    /\ answers.scripted => answers.answer[model_no] = None
    /\ \E response \in Responses :
          /\ requests' = Append(requests, Request("ok", response))
          /\ metadata' = [metadata EXCEPT !.llm_used = _config.ollama.models[model_no],
                                          !.llm_success = TRUE,
                                          !.llm_error = None,
                                          !.response_time = Elapsed]
          /\ result' = NormalOutput(CleanedResponse[response], metadata')
    /\ analysis_metadata' = Put(analysis_metadata, "llm_metadata", metadata')
    /\ narrative' = "backend"
    /\ pc' = "done"
    /\ UNCHANGED << answers, calls, previous, loads, config_id, threads, raw_response,
                    cleaned_result,
                    config_file, _config, pr_diff_text, lines, line_no,
                    current_file, files_changed, notable_issues, summary,
                    risk_score, suggested_tests, suggested_labels, model_no, raised >>

ModelSucceeds ==
    /\ pc = "llm"
    /\ model_no <= Len(_config.ollama.models)
    /\ answers.scripted => answers.answer[model_no] = None
    /\ \E response \in Responses :
          /\ requests' = Append(requests, Request("ok", response))
          /\ metadata' = [metadata EXCEPT !.llm_used = _config.ollama.models[model_no],
                                          !.llm_success = TRUE,
                                          !.response_time = Elapsed]
          /\ result' = NormalOutput(CleanedResponse[response], metadata')
    /\ analysis_metadata' = Put(analysis_metadata, "llm_metadata", metadata')
    /\ narrative' = "backend"
    /\ pc' = "done"
    /\ UNCHANGED << answers, calls, previous, loads, config_id, threads, raw_response,
                    cleaned_result,
                    config_file, _config, pr_diff_text, lines, line_no,
                    current_file, files_changed, notable_issues, summary,
                    risk_score, suggested_tests, suggested_labels, model_no, raised >>

\* the model answers with a status other than 200
ModelHttpError == \E status \in ErrorStatuses : ModelFails(ErrHttpHead \o IntToStr(status))

\* requests.exceptions.ConnectionError
ModelConnectionError == ModelFails(ErrConnection)

\* requests.exceptions.Timeout
ModelTimeout == ModelFails(ErrTimeout)

\* any other exception of the iteration: a 200 answer without a "response" key
ModelOtherError == ModelFails(ErrNoResponseKey)

\* every model failed (or none is configured): the fallback narrative is
\* returned and analyze_pr returns the normal result
Fallback ==
    /\ pc = "llm"
    /\ model_no > Len(_config.ollama.models)
    /\ metadata' = [metadata EXCEPT !.response_time = Elapsed]
    /\ result' = NormalOutput(generate_intelligent_fallback(AnalysisData), metadata')
    /\ analysis_metadata' = Put(analysis_metadata, "llm_metadata", metadata')
    /\ narrative' = "fallback"
    /\ pc' = "done"
    /\ UNCHANGED << answers, calls, previous, loads, config_id, threads, raw_response,
                    cleaned_result,
                    config_file, _config, pr_diff_text, lines, line_no,
                    current_file, files_changed, notable_issues, summary,
                    risk_score, suggested_tests, suggested_labels, model_no,
                    requests, raised >>

Next ==
    \/ Call
    \/ ValidateReject
    \/ ValidateAccept
    \/ ParseStep
    \/ Score
    \/ ModelSucceeds
    \/ ModelHttpError
    \/ ModelConnectionError
    \/ ModelTimeout
    \/ ModelOtherError
    \/ Fallback

Spec == Init /\ [][Next]_vars

(***************************************************************************)
(* Unexpected failures.  analyze_pr runs validation, parsing, scoring and  *)
(* the summary generation inside "try: ... except Exception as e", and     *)
(* each line of the parser inside a try of its own.  With a str argument   *)
(* and a configuration of the right types none of these statements         *)
(* raises, so the failures are injected: at each stage an exception may    *)
(* be raised instead of the stage's step.                                  *)
(***************************************************************************)
InjectedError ==
    <<"i","n","j","e","c","t","e","d"," ","f","a","i","l","u","r","e">>

\* a handler that records the error and raises it again
ExceptHandler_Reraise(e) ==
    /\ analysis_metadata' = Put(analysis_metadata, "unexpected_error", e)
    /\ result' = result
    /\ pc' = "done"
    /\ raised' = TRUE

\* "except Exception as e" of analyze_pr: the error is recorded in the
\* metadata and the degraded result is returned
ExceptHandler(e) ==
    /\ analysis_metadata' = Put(analysis_metadata, "unexpected_error", e)
    /\ result' = ErrorOutput(e, analysis_metadata')
    /\ pc' = "done"
    /\ raised' = FALSE

\* an exception raised by validate_pr_input
FaultValidate ==
    /\ pc = "validate"
    /\ ExceptHandler(InjectedError)
    /\ UNCHANGED << answers, calls, previous, loads, config_id, threads, raw_response,
                    cleaned_result,
                    config_file, _config, pr_diff_text, lines, line_no,
                    current_file, files_changed, notable_issues, summary,
                    risk_score, suggested_tests, suggested_labels, model_no,
                    metadata, requests, narrative >>

\* an exception raised while one line is processed: "except Exception as
\* line_error" logs it and the loop continues with the next line
FaultLine ==
    /\ pc = "parse"
    /\ line_no <= Len(lines)
    /\ line_no' = line_no + 1
    /\ UNCHANGED << answers, calls, previous, loads, config_id, threads, raw_response,
                    cleaned_result,
                    config_file, _config, pr_diff_text, pc, analysis_metadata,
                    lines, current_file, files_changed, notable_issues, summary,
                    risk_score, suggested_tests, suggested_labels, model_no,
                    metadata, requests, narrative, result, raised >>

\* an exception raised by the parsing loop outside a line's own try
FaultParse ==
    /\ pc = "parse"
    /\ line_no <= Len(lines)
    /\ ExceptHandler(InjectedError)
    /\ UNCHANGED << answers, calls, previous, loads, config_id, threads, raw_response,
                    cleaned_result,
                    config_file, _config, pr_diff_text, lines, line_no,
                    current_file, files_changed, notable_issues, summary,
                    risk_score, suggested_tests, suggested_labels, model_no,
                    metadata, requests, narrative >>

\* an exception raised by calculate_risk_score or the suggestions
FaultScore ==
    /\ pc = "parse"
    /\ line_no > Len(lines)
    /\ ExceptHandler(InjectedError)
    /\ UNCHANGED << answers, calls, previous, loads, config_id, threads, raw_response,
                    cleaned_result,
                    config_file, _config, pr_diff_text, lines, line_no,
                    current_file, files_changed, notable_issues, summary,
                    risk_score, suggested_tests, suggested_labels, model_no,
                    metadata, requests, narrative >>

\* an exception raised by get_llm_summary outside its per-model try (the
\* prompt, the loop itself, generate_intelligent_fallback)
FaultSummary ==
    /\ pc = "llm"
    /\ ExceptHandler(InjectedError)
    /\ UNCHANGED << answers, calls, previous, loads, config_id, threads, raw_response,
                    cleaned_result,
                    config_file, _config, pr_diff_text, lines, line_no,
                    current_file, files_changed, notable_issues, summary,
                    risk_score, suggested_tests, suggested_labels, model_no,
                    metadata, requests, narrative >>

NextFault ==
    \/ Next
    \/ FaultValidate
    \/ FaultLine
    \/ FaultParse
    \/ FaultScore
    \/ FaultSummary

SpecFault == Init /\ [][NextFault]_vars

(***************************************************************************)
(* Properties                                                              *)
(***************************************************************************)
\* the eight fields of the output record
OutputFields ==
    { "summary", "risk_score", "files_changed", "notable_issues", "suggested_tests",
      "suggested_labels", "human_readable_review", "analysis_metadata" }

\* the three results analyze_pr returns
IsInvalidResult(r) ==
    /\ r.summary = SummaryInvalid
    /\ r.suggested_labels = <<"invalid-input">>
    /\ r.suggested_tests = <<"Fix input format">>

IsDegradedResult(r) ==
    /\ r.summary = SummaryError
    /\ r.suggested_labels = <<"analysis-failed">>
    /\ "unexpected_error" \in DOMAIN r.analysis_metadata

IsNormalResult(r) ==
    /\ StartsWith(r.summary, SummaryHead)
    /\ r.suggested_labels \in
           { <<"approved">>, <<"needs-review">>, <<"high-risk", "security-review">> }
    /\ r.suggested_tests[1] = "Run unit tests"

\* no exception has left the call, and a call that has returned has returned
\* a record with all eight fields set that is one of the three results
ReturnsWellFormed ==
    /\ raised = FALSE
    /\ pc # "done" => result = NoResult
    /\ pc = "done" =>
          /\ DOMAIN result = OutputFields
          /\ \/ IsInvalidResult(result)
             \/ IsNormalResult(result)
             \/ IsDegradedResult(result)

\* a bound on the steps the call has left: the lines still to parse, the
\* models still to try, and the steps between the loops
StepsLeft ==
    LET nl == Cardinality({ i \in 1..Len(pr_diff_text) : pr_diff_text[i] = "\n" }) + 1
        nm == Len(config_file.ollama.models)
    IN  CASE pc = "idle"     -> nl + nm + 4
          [] pc = "validate" -> nl + nm + 3
          [] pc = "parse"    -> (Len(lines) + 1 - line_no) + nm + 2
          [] pc = "llm"      -> (nm + 1 - model_no) + 1
          [] pc = "done"     -> 0

\* C1: analyze_pr never lets an exception out.  Whatever the input, and with
\* a failure injected into validation, a line of the parser, the parsing
\* loop, the scoring or the summary generation, no exception ever leaves the
\* call, the value returned is a record with all eight fields set that is
\* the invalid-input result, the normal result or the analysis-failed
\* result, and every step brings the call nearer to its return (the steps
\* left are a natural number that every step decreases).
C1_NeverRaises ==
    /\ [](ReturnsWellFormed /\ StepsLeft >= 0 /\ (pc # "done" => ENABLED Next))
    /\ [][StepsLeft' < StepsLeft]_vars

\* C1 witness: a failure was injected after parsing had succeeded (into the
\* scoring or the summary generation) and the degraded result was returned
C1_Witness ==
    /\ pc = "done"
    /\ IsDegradedResult(result)
    /\ result.analysis_metadata.input_valid
    /\ line_no > Len(lines)

\* the inputs validation is to reject: empty, whitespace only, longer than
\* the configured maximum, or without the marker anywhere
InvalidInput(text, config) ==
    \/ Len(text) = 0
    \/ \A i \in 1..Len(text) : text[i] \in Whitespace
    \/ Len(text) > config.analysis.max_diff_size
    \/ \A i \in 1..Len(text) : ~StartsWith(Drop(text, i - 1), DiffMarker)

\* C2: for an input that is empty, whitespace only, longer than the
\* configured maximum or without a 'diff --git' marker, analyze_pr returns
\* risk_score 0.0, 'invalid-input' among the labels, no changed file and
\* exactly one finding, which carries the reason.
C2_InvalidInputResult ==
    pc = "done" /\ InvalidInput(pr_diff_text, config_file) =>
        /\ result.risk_score = 0
        /\ InList("invalid-input", result.suggested_labels)
        /\ result.files_changed = <<>>
        /\ Len(result.notable_issues) = 1
        /\ result.notable_issues[1].issue
               \in { MsgEmpty, MsgWhitespace, MsgNoHeader,
                     MsgTooLarge(Len(pr_diff_text), config_file.analysis.max_diff_size) }

\* C2 witness: a text with a file header that is longer than the maximum was
\* rejected
C2_Witness ==
    /\ pc = "done"
    /\ Len(pr_diff_text) > config_file.analysis.max_diff_size
    /\ Contains(pr_diff_text, DiffMarker)
    /\ result.suggested_labels = <<"invalid-input">>

\* the models the call is configured with
Models == config_file.ollama.models

\* the review clean_ai_response is to make of each modelled response
ExpectedReview(response) ==
    CASE response = <<"L","o","o","k","s"," ","g","o","o","d",".">> -> <<"L","o","o","k","s"," ","g","o","o","d",".">>
      [] response = <<"H","e","r","e","'","s"," ","m","y"," ","c","o","d","e"," ","r","e","v","i","e","w",":"," ","A","d","d","s"," ","x",".","."," "," ","N","o","t","e",":"," ","y">> -> <<"A","d","d","s"," ","x",".">>
      [] response = <<" ","o","k","\n">> -> <<"o","k",".">>
      [] response = <<>> -> <<>>

\* C3: first success wins.  When the first backends of the list fail and
\* the next one answers successfully (in particular: list [A, B], A fails, B
\* succeeds), the returned metadata names that backend as llm_used with
\* llm_success true, it is the only successful request, and
\* human_readable_review is that backend's response as clean_ai_response
\* leaves it, not the fallback narrative.
C3_FirstSuccessWins ==
    pc = "done" /\ Len(requests) >= 2 /\ requests[Len(requests)].outcome = "ok" =>
        LET n == Len(requests)
            m == result.analysis_metadata.llm_metadata
        IN  /\ \A i \in 1..(n - 1) : requests[i].outcome = "failed"
            /\ m.llm_used = Models[n]
            /\ m.llm_success = TRUE
            /\ result.human_readable_review = ExpectedReview(requests[n].response)
            /\ ~StartsWith(result.human_readable_review, FallbackHead)
            /\ narrative = "backend"

\* C3 witness: of two configured backends the first failed and the second
\* answered, and the review is the second one's cleaned answer
C3_Witness ==
    /\ pc = "done"
    /\ Len(Models) = 2
    /\ Len(requests) = 2
    /\ requests[1].outcome = "failed"
    /\ requests[2].outcome = "ok"
    /\ requests[2].response = <<" ","o","k","\n">>
    /\ result.human_readable_review = <<"o","k",".">>

\* C4: within one call the generation requests go out one after the other
\* in configuration order, the i-th request to the i-th configured backend
\* and so each entry of the list at most once; a request follows only
\* failed requests, so backend k+1 is asked only after backend k failed and
\* nothing is asked after a success.
C4_SequentialRequests ==
    /\ Len(requests) <= Len(Models)
    /\ \A i \in 1..Len(requests) : requests[i].model = Models[i]
    /\ \A i \in 1..(Len(requests) - 1) : requests[i].outcome = "failed"
    /\ pc = "llm" => Len(requests) = model_no - 1
    /\ pc \in {"idle", "validate", "parse"} => requests = <<>>

\* C4 witness: the second backend was asked after the first had failed, and
\* answered
C4_Witness ==
    /\ Len(requests) = 2
    /\ requests[1].outcome = "failed"
    /\ requests[2].outcome = "ok"
    /\ requests[1].model = "llama3.2:3b"
    /\ requests[2].model = "qwen2.5-coder:1.5b"

\* every configured backend has been asked and has failed
AllFailed ==
    /\ Len(requests) = Len(Models)
    /\ \A i \in 1..Len(requests) : requests[i].outcome = "failed"

\* C5: the fallback narrative is produced if and only if every configured
\* backend has been tried and has failed (none being configured included).
\* A backend's failure does not end the call while another backend is left,
\* the fallback always yields a narrative, and choosing it ends the call
\* with no further request.
C5_FallbackIffExhausted ==
    /\ narrative = "fallback" =>
          /\ AllFailed
          /\ pc = "done"
          /\ StartsWith(result.human_readable_review, FallbackHead)
          /\ result.analysis_metadata.llm_metadata.llm_success = FALSE
    /\ pc = "done" /\ result.analysis_metadata.parsing_success /\ AllFailed =>
          narrative = "fallback"
    /\ /\ requests # <<>>
       /\ requests[Len(requests)].outcome = "failed"
       /\ Len(requests) < Len(Models)
       => pc = "llm" /\ narrative = "none"

\* C5 witness: two backends were configured, both failed, and the fallback
\* narrative was returned
C5_Witness ==
    /\ pc = "done"
    /\ narrative = "fallback"
    /\ Len(requests) = 2
    /\ StartsWith(result.human_readable_review, FallbackHead)

\* C6: the risk score lies in [0.0, 1.0], as calculate_risk_score computes
\* it and in every result analyze_pr returns, whatever the changed files,
\* the findings and the configured weights.
C6_ScoreInUnitInterval ==
    /\ pc \in {"llm", "done"} => 0 <= risk_score /\ risk_score <= One
    /\ pc = "done" => 0 <= result.risk_score /\ result.risk_score <= One

\* the sum of a sequence of numbers
RECURSIVE SumSeq(_)
SumSeq(q) == IF q = <<>> THEN 0 ELSE Head(q) + SumSeq(Tail(q))

\* the weights of the findings, and the extension weights of the files
FindingWeights(issues) == [i \in 1..Len(issues) |-> issues[i].risk_weight]

ExtensionWeights(files, config) ==
    [i \in 1..Len(files) |-> FileTypeWeight(config, Lower(PathSuffix(files[i])))]

\* the 0.1 * (sum of extension weights) / max(1, number of files) of the claim
FileTypeTerm(files, config) ==
    (SumSeq(ExtensionWeights(files, config)) \div 10) \div Max(1, Len(files))

\* validation accepted the input and the score has been computed
Scored == pc \in {"llm", "done"} /\ analysis_metadata.input_valid

\* the diff of the spec's scenario: one .py file, one added line with TODO
ScenarioDiff == <<"d","i","f","f"," ","-","-","g","i","t"," ","a","/","x",".","p","y"," ","b","/","x",".","p","y","\n","+","#"," ","T","O","D","O",":"," ","x">>

\* C7: calculate_risk_score returns min(1.0, 0.1 + the sum of the findings'
\* weights + 0.1 * (the sum of the changed files' extension weights, an
\* unknown extension weighing 1.0) / max(1, the number of changed files));
\* without changed files the file-type term is 0.  One .py file with one
\* TODO finding scores 0.4 under the default weights.
C7_ScoreFormula ==
    /\ Scored =>
          /\ risk_score =
                 Min(One, Tenths(1) + SumSeq(FindingWeights(notable_issues))
                          + FileTypeTerm(files_changed, config_file))
          /\ files_changed = <<>> =>
                 risk_score = Min(One, Tenths(1) + SumSeq(FindingWeights(notable_issues)))
          /\ pc = "done" => result.risk_score = risk_score
    /\ /\ pc = "done"
       /\ pr_diff_text = ScenarioDiff
       /\ config_file.analysis.risk_keywords = DefaultRiskKeywords
       /\ config_file.analysis.file_type_weights = DefaultFileTypeWeights
       => result.risk_score = Tenths(4)

\* C7 witness: the scenario's diff was scored 0.4 with one finding for TODO
C7_Witness ==
    /\ pc = "done"
    /\ pr_diff_text = ScenarioDiff
    /\ result.risk_score = Tenths(4)
    /\ Len(result.notable_issues) = 1
    /\ result.notable_issues[1].keyword = <<"T","O","D","O">>
    /\ result.files_changed = << <<"x",".","p","y">> >>

\* C8: for a valid diff the suggestions follow the score with strict
\* thresholds: 'Run integration tests' iff the score is above 0.3,
\* 'Security review required' iff it is above 0.5, the labels are
\* ['high-risk', 'security-review'] iff it is above 0.7, whatever the
\* findings, and otherwise ['needs-review'] with a finding and ['approved']
\* without one.
C8_Suggestions ==
    pc = "done" /\ result.analysis_metadata.input_valid =>
        LET score  == result.risk_score
            tests  == result.suggested_tests
            labels == result.suggested_labels
        IN  /\ InList("Run integration tests", tests) <=> score > Tenths(3)
            /\ InList("Security review required", tests) <=> score > Tenths(5)
            /\ labels = <<"high-risk", "security-review">> <=> score > Tenths(7)
            /\ score <= Tenths(7) /\ result.notable_issues # <<>> =>
                   labels = <<"needs-review">>
            /\ score <= Tenths(7) /\ result.notable_issues = <<>> =>
                   labels = <<"approved">>

\* C8 witness: a diff with findings scored exactly 0.7, which is not above
\* the threshold: it is labelled needs-review and gets both test suggestions
C8_Witness ==
    /\ pc = "done"
    /\ result.analysis_metadata.input_valid
    /\ result.risk_score = Tenths(7)
    /\ result.suggested_labels = <<"needs-review">>
    /\ result.suggested_tests =
           <<"Run unit tests", "Run integration tests", "Security review required">>

\* no added line (a line starting with "+") of the text contains a
\* configured risk keyword
NoKeywordMatch(text, config) ==
    LET ls == Split(text, "\n")
    IN  \A i \in 1..Len(ls) :
            StartsWith(ls[i], <<"+">>) => MatchingKeywords(ls[i], config) = {}

\* C9 as stated: for a valid diff in which no added line matches a
\* configured keyword, risk_score is 0.1 plus the file-type term and the
\* labels contain 'approved'.
C9_NoMatchApproved ==
    pc = "done" /\ result.analysis_metadata.input_valid
    /\ NoKeywordMatch(pr_diff_text, config_file) =>
        /\ result.risk_score = Tenths(1) + FileTypeTerm(result.files_changed, config_file)
        /\ InList("approved", result.suggested_labels)

\* C9 as amended: for a valid diff in which no added line matches a
\* configured keyword there is no finding, risk_score is 0.1 plus the
\* file-type term, capped at 1.0, and the labels are ['approved'] unless
\* that score is above 0.7, where they are ['high-risk', 'security-review'].
C9_NoMatchApprovedUnlessHigh ==
    pc = "done" /\ result.analysis_metadata.input_valid
    /\ NoKeywordMatch(pr_diff_text, config_file) =>
        /\ result.notable_issues = <<>>
        /\ result.risk_score =
               Min(One, Tenths(1) + FileTypeTerm(result.files_changed, config_file))
        /\ result.risk_score <= Tenths(7) => result.suggested_labels = <<"approved">>
        /\ result.risk_score > Tenths(7) =>
               result.suggested_labels = <<"high-risk", "security-review">>

\* C9 witness: a valid diff with a file and an added line that matches no
\* keyword was approved with the score of its file type alone
C9_Witness ==
    /\ pc = "done"
    /\ pr_diff_text = <<"d","i","f","f"," ","-","-","g","i","t"," ","a","/","d",".","s","q","l"," ","b","/","d",".","m","d","\n","+","x"," ","="," ","1">>
    /\ config_file.analysis.file_type_weights = DefaultFileTypeWeights
    /\ result.risk_score = Tenths(1) + TimesTenth(Tenths(13))
    /\ result.suggested_labels = <<"approved">>

\* the added lines of the model that match a configured keyword
KeywordLines(config) ==
    { l \in LineChoices : StartsWith(l, <<"+">>) /\ MatchingKeywords(l, config) # {} }

\* the text with line l inserted after its first pos lines
InsertLine(text, pos, l) ==
    LET ls == Split(text, "\n")
    IN  Join(SubSeq(ls, 1, pos) \o <<l>> \o SubSeq(ls, pos + 1, Len(ls)), <<"\n">>)

\* the positions a line can be inserted at
Positions(text) == 0..Len(Split(text, "\n"))

\* a valid diff has just been scored (the score is the one returned)
JustScored == pc = "llm" /\ requests = <<>>

InsertedWeight(text, pos, l, config) ==
    IF Truthy(ParseLines(SubSeq(Split(text, "\n"), 1, pos), ParseStart, config).current_file)
    THEN FirstMatch(l, config).weight
    ELSE 0

MaxCalls == 2

\* three distinct files and no keyword; in the second text one is an .sql file
ThreeFilesDiff ==
    <<"d","i","f","f"," ","-","-","g","i","t"," ","a","/","R"," ","b","/","R","\n","d","i","f",
      "f"," ","-","-","g","i","t"," ","a","/","S"," ","b","/","S","\n","d","i","f","f"," ","-",
      "-","g","i","t"," ","a","/","T"," ","b","/","T">>
ThreeFilesSqlDiff ==
    <<"d","i","f","f"," ","-","-","g","i","t"," ","a","/","d",".","s","q","l"," ","b","/","d",
      "\n","d","i","f","f"," ","-","-","g","i","t"," ","a","/","R"," ","b","/","R","\n","d","i",
      "f","f"," ","-","-","g","i","t"," ","a","/","S"," ","b","/","S">>

\* the texts analyze_pr is invoked on repeatedly: a file with a finding, a
\* renamed file with a line matching two keywords, the same header twice
\* around a line without keyword, a text validation rejects, and the two
\* texts of three files
RepeatInputs ==
    { ScenarioDiff,
      <<"d","i","f","f"," ","-","-","g","i","t"," ","a","/","d",".","s","q","l"," ","b","/","d",".","m","d","\n","+","t","o","k","e","n","=","p","a","s","s","w","o","r","d">>,
      <<"d","i","f","f"," ","-","-","g","i","t"," ","a","/","x",".","p","y"," ","b","/","x",".","p","y","\n","+","x"," ","="," ","1","\n","d","i","f","f"," ","-","-","g","i","t"," ","a","/","x",".","p","y"," ","b","/","x",".","p","y">>,
      <<"+","#"," ","T","O","D","O",":"," ","x">>,
      ThreeFilesDiff,
      ThreeFilesSqlDiff }

\* the fields two invocations are compared on
ComparedFields ==
    { "summary", "risk_score", "files_changed", "notable_issues", "human_readable_review" }

\* analyze_pr has returned and the caller invokes it again on the same text:
\* what it returned is kept for comparison; the locals of the first
\* invocation are left as they were, for the second to make its own
Again ==
    /\ pc = "done"
    /\ calls < MaxCalls
    /\ previous' = [returned  |-> TRUE,
                    narrative |-> narrative,
                    fields    |-> [f \in ComparedFields |-> result[f]]]
    /\ result' = NoResult
    /\ requests' = <<>>
    /\ narrative' = "none"
    /\ pc' = "idle"
    /\ UNCHANGED << answers, config_file, _config, pr_diff_text, analysis_metadata, lines,
                    line_no, current_file, files_changed, notable_issues, summary,
                    risk_score, suggested_tests, suggested_labels, model_no,
                    metadata, raised, calls, loads, config_id, threads,
                    raw_response, cleaned_result >>

InitRepeat ==
    /\ config_file \in ConfigFiles
    /\ pr_diff_text \in RepeatInputs
    /\ raw_response = None
    /\ answers = Unscripted
    /\ Started

NextRepeat ==
    \/ Next
    \/ Again

SpecRepeat == InitRepeat /\ [][NextRepeat]_vars

\* C11: two invocations of analyze_pr on the same text, with the
\* configuration unchanged and every backend failing in both, return the same
\* summary, risk_score, files_changed, notable_issues and
\* human_readable_review, however each backend fails; the configuration is
\* the one loaded by the first invocation.
C11_SameResultTwice ==
    /\ pc = "done" /\ previous # NoResult
       /\ previous.narrative # "backend" /\ narrative # "backend"
       => \A f \in ComparedFields : result[f] = previous.fields[f]
    /\ calls >= 1 => _config = config_file /\ loads = 1

\* C11 witness: the second invocation returned the fallback narrative with a
\* finding, after both backends failed in each invocation, the last one by a
\* timeout
C11_Witness ==
    /\ pc = "done"
    /\ calls = 2
    /\ previous # NoResult
    /\ previous.narrative = "fallback"
    /\ narrative = "fallback"
    /\ Len(requests) = 2
    /\ result.analysis_metadata.llm_metadata.llm_error = ErrTimeout
    /\ Len(result.notable_issues) = 1
    /\ Len(previous.fields.notable_issues) = 1

(***************************************************************************)
(* The parser alone: texts of more kinds of lines, no backend configured   *)
(***************************************************************************)
\* the lines of these texts: headers of a file, of a rename, of a file
\* without extension, without a filename and with an empty filename; added
\* lines matching two keywords, none and one; a context line with a keyword
ParseLineChoices ==
    { <<"d","i","f","f"," ","-","-","g","i","t"," ","a","/","x",".","p","y"," ","b","/","x",".","p","y">>,
      <<"d","i","f","f"," ","-","-","g","i","t"," ","a","/","d",".","s","q","l"," ","b","/","d",".","m","d">>,
      <<"d","i","f","f"," ","-","-","g","i","t"," ","a","/","R"," ","b","/","R">>,
      <<"d","i","f","f"," ","-","-","g","i","t">>,
      <<"d","i","f","f"," ","-","-","g","i","t"," ","a","/"," ","b","/">>,
      <<"+","t","o","k","e","n","=","p","a","s","s","w","o","r","d">>,
      <<"+","x"," ","="," ","1">>,
      <<"+","#"," ","T","O","D","O",":"," ","x">>,
      <<" ","#"," ","F","I","X","M","E">> }

ParseInputs ==
    { Join(ls, <<"\n">>) : ls \in UNION { [1..n -> ParseLineChoices] : n \in 0..MaxLines } }

\* AnalysisConfig.max_diff_size as config.py sets it
DefaultMaxDiffSize == 50000

\* a config.json that lists "token" before "password"
ReorderedRiskKeywords ==
    << [keyword |-> <<"t","o","k","e","n">>,    weight |-> Tenths(4)],
       [keyword |-> <<"p","a","s","s","w","o","r","d">>, weight |-> Tenths(6)],
       [keyword |-> <<"T","O","D","O">>,     weight |-> Tenths(2)] >>

\* the configurations of these runs: no model is configured, so that the
\* review is the fallback narrative
ParseConfigs ==
    { PRAnalyzerConfig(<<>>, DefaultMaxDiffSize, DefaultRiskKeywords, DefaultFileTypeWeights),
      PRAnalyzerConfig(<<>>, DefaultMaxDiffSize, ReorderedRiskKeywords,
                       DefaultFileTypeWeights) }

InitParse ==
    /\ config_file \in ParseConfigs
    /\ pr_diff_text \in ParseInputs
    /\ raw_response = None
    /\ answers = Unscripted
    /\ Started

NextParse ==
    \/ Call
    \/ ValidateReject
    \/ ValidateAccept
    \/ ParseStep
    \/ Score
    \/ Fallback

SpecParse == InitParse /\ [][NextParse]_vars

\* the lines the loop has been through
LinesDone == SubSeq(lines, 1, line_no - 1)

\* a file header from which the parser takes a filename: at least three
\* space-separated parts
NamingHeader(line) == StartsWith(line, DiffMarker) /\ Len(Split(line, " ")) >= 3

\* the filename the parser takes from such a header
HeaderPath(line) == Drop(Split(line, " ")[3], 2)

\* the elements of q at the indices in S, in increasing order of index
SubSeqAt(q, S) ==
    [ k \in 1..Cardinality(S) |->
        q[CHOOSE i \in S : Cardinality({ j \in S : j < i }) = k - 1] ]

\* the filenames of the headers among ls, each at its first occurrence only
FirstSeenPaths(ls) ==
    LET heads == { i \in 1..Len(ls) : NamingHeader(ls[i]) }
        first == { i \in heads :
                     \A j \in heads : j < i => HeaderPath(ls[j]) # HeaderPath(ls[i]) }
    IN  SubSeqAt([i \in 1..Len(ls) |-> IF i \in heads THEN HeaderPath(ls[i]) ELSE <<>>],
                 first)

\* validation has accepted the text: the parser is at work or has finished
Parsing == pc \in {"parse", "llm", "done"} /\ analysis_metadata.input_valid

\* C12: at every step of the parsing loop and in the returned result,
\* files_changed holds no path twice and lists the paths in the order of
\* their first file header, also when a header occurs several times.
C12_NoDuplicateFirstSeen ==
    Parsing =>
        /\ \A i, j \in 1..Len(files_changed) : i # j => files_changed[i] # files_changed[j]
        /\ files_changed = FirstSeenPaths(LinesDone)
        /\ pc = "done" => result.files_changed = files_changed

\* C12 witness: a text whose first header comes back after the header of
\* another file has been parsed into two paths, the repeated one first
C12_Witness ==
    /\ pc = "done"
    /\ lines = << <<"d","i","f","f"," ","-","-","g","i","t"," ","a","/","x",".","p","y"," ","b","/","x",".","p","y">>, <<"d","i","f","f"," ","-","-","g","i","t"," ","a","/","R"," ","b","/","R">>,
                  <<"d","i","f","f"," ","-","-","g","i","t"," ","a","/","x",".","p","y"," ","b","/","x",".","p","y">> >>
    /\ result.files_changed = << <<"x",".","p","y">>, <<"R">> >>


\* C13: in every result of a valid input, and at every step of the loop
\* that builds it, the file of every finding is an element of files_changed;
\* a text none of whose headers gave a non-empty filename has no finding.
C13_FindingsReferListedFiles ==
    Parsing =>
        /\ \A i \in 1..Len(notable_issues) : InList(notable_issues[i].file, files_changed)
        /\ (\A i \in 1..Len(LinesDone) :
                NamingHeader(LinesDone[i]) => HeaderPath(LinesDone[i]) = <<>>)
           => notable_issues = <<>>
        /\ pc = "done" =>
             /\ result.notable_issues = notable_issues
             /\ \A i \in 1..Len(result.notable_issues) :
                    InList(result.notable_issues[i].file, result.files_changed)

\* C13 witness: a keyword line before the first header and the same line
\* after the header of x.py: the one finding returned is the one of x.py
C13_Witness ==
    /\ pc = "done"
    /\ lines = << <<"+","t","o","k","e","n","=","p","a","s","s","w","o","r","d">>, <<"d","i","f","f"," ","-","-","g","i","t"," ","a","/","x",".","p","y"," ","b","/","x",".","p","y">>, <<"+","t","o","k","e","n","=","p","a","s","s","w","o","r","d">> >>
    /\ Len(result.notable_issues) = 1
    /\ result.notable_issues[1].file = <<"x",".","p","y">>
    /\ result.files_changed = << <<"x",".","p","y">> >>


\* the cursor when the loop comes to line i of ls: the filename of the last
\* naming header before it, None when there is none
CursorAt(ls, i) ==
    LET heads == { j \in 1..(i - 1) : NamingHeader(ls[j]) }
    IN  IF heads = {} THEN None
        ELSE HeaderPath(ls[CHOOSE j \in heads : \A k \in heads : k <= j])

\* the position, in the configured order, of the first keyword the line
\* contains case-insensitively; 0 when it contains none
FirstKeywordIn(line, keywords) ==
    LET hit(k) == Contains(Lower(line), Lower(keywords[k].keyword))
        hits   == { k \in 1..Len(keywords) : hit(k) }
    IN  IF hits = {} THEN 0 ELSE CHOOSE k \in hits : \A j \in 1..(k - 1) : ~hit(j)

\* the added lines of ls that have a current file and contain a keyword
FindingLines(ls, keywords) ==
    { i \in 1..Len(ls) : /\ ~StartsWith(ls[i], DiffMarker)
                         /\ StartsWith(ls[i], <<"+">>)
                         /\ Truthy(CursorAt(ls, i))
                         /\ FirstKeywordIn(ls[i], keywords) > 0 }

\* C15: the findings are, in line order, one for each added line that has a
\* current file and contains a configured keyword, with the keyword and the
\* weight of the first keyword in configuration order that the line contains
\* case-insensitively; a line containing several keywords gives one finding
\* and a line containing none gives none.
C15_OneFindingPerLineFirstKeyword ==
    Parsing =>
        \E keywords \in { _config.analysis.risk_keywords } :
        \E at \in { SubSeqAt([i \in 1..Len(LinesDone) |-> i],
                             FindingLines(LinesDone, keywords)) } :
            /\ Len(notable_issues) = Len(at)
            /\ \A n \in 1..Len(at) :
                 \E kw \in { keywords[FirstKeywordIn(LinesDone[at[n]], keywords)] } :
                    /\ notable_issues[n].keyword = kw.keyword
                    /\ notable_issues[n].risk_weight = kw.weight
                    /\ notable_issues[n].file = CursorAt(LinesDone, at[n])
                    /\ notable_issues[n].line_preview = Take(Strip(LinesDone[at[n]]), LinePreviewLen)
            /\ pc = "done" => result.notable_issues = notable_issues

\* C15 witness: with "token" configured before "password", the added line
\* "+token=password" of x.py has given the one finding of keyword "token",
\* followed by the finding of the next line
C15_Witness ==
    /\ pc = "done"
    /\ _config.analysis.risk_keywords = ReorderedRiskKeywords
    /\ lines = << <<"d","i","f","f"," ","-","-","g","i","t"," ","a","/","x",".","p","y"," ","b","/","x",".","p","y">>, <<"+","t","o","k","e","n","=","p","a","s","s","w","o","r","d">>, <<"+","#"," ","T","O","D","O",":"," ","x">> >>
    /\ Len(result.notable_issues) = 2
    /\ result.notable_issues[1].keyword = <<"t","o","k","e","n">>
    /\ result.notable_issues[1].risk_weight = Tenths(4)
    /\ result.notable_issues[2].keyword = <<"T","O","D","O">>


\* a header of the form 'diff --git a/<old> b/<new>'
FullHeader(line) ==
    /\ StartsWith(line, DiffMarker)
    /\ Len(Split(line, " ")) = 4
    /\ StartsWith(Split(line, " ")[3], <<"a", "/">>)
    /\ StartsWith(Split(line, " ")[4], <<"b", "/">>)

\* <new> of such a header
NewPath(line) == Drop(Split(line, " ")[4], 2)

\* C16: once the loop has been through a header 'diff --git a/<old> b/<new>',
\* the current file is <new> and <new> is listed in files_changed, also when
\* <old> differs from <new>; the file of a finding is the <new> of the last
\* such header before its line.
C16_CursorIsNewPath ==
    Parsing =>
        /\ line_no > 1 /\ FullHeader(lines[line_no - 1]) =>
             /\ current_file = NewPath(lines[line_no - 1])
             /\ InList(NewPath(lines[line_no - 1]), files_changed)
        /\ line_no > 2 /\ FullHeader(lines[line_no - 2])
                       /\ Len(notable_issues) > 0
                       /\ StartsWith(lines[line_no - 1], <<"+">>)
                       /\ FirstKeywordIn(lines[line_no - 1], _config.analysis.risk_keywords) > 0 =>
             notable_issues[Len(notable_issues)].file = NewPath(lines[line_no - 2])


ThreeFilesLowReview ==
    <<"T","h","i","s"," ","P","R"," ","m","o","d","i","f","i","e","s"," ","3"," ","f","i","l",
      "e","(","s",")","."," ","L","o","w"," ","r","i","s","k"," ","-"," ","s","t","a","n","d",
      "a","r","d"," ","r","e","v","i","e","w"," ","p","r","o","c","e","s","s",".">>

\* the call has returned the fallback narrative for three changed files
\* without finding, every configured backend having failed
ThreeFilesNoBackend ==
    /\ pc = "done"
    /\ narrative = "fallback"
    /\ AllFailed
    /\ Len(result.files_changed) = 3
    /\ result.notable_issues = <<>>

\* C18 as stated: for three changed files, no keyword match and no reachable
\* backend, the fallback narrative states the file count 3, states zero
\* issues and uses the 'low risk' and 'standard review' phrasing.
C18_NarrativeStatesZeroIssues ==
    ThreeFilesNoBackend =>
        /\ Contains(result.human_readable_review, <<"3"," ","f","i","l","e","(","s",")">>)
        /\ Contains(Lower(result.human_readable_review), <<"i","s","s","u","e">>)
        /\ Contains(Lower(result.human_readable_review), <<"l","o","w"," ","r","i","s","k">>)
        /\ Contains(Lower(result.human_readable_review), <<"s","t","a","n","d","a","r","d"," ","r","e","v","i","e","w">>)

\* C18: for three changed files, no keyword match and no reachable backend,
\* the fallback narrative states the file count 3 and says nothing of
\* issues; under the default file-type weights it is exactly the sentence
\* of the file count followed by the 'low risk' and 'standard review' phrasing.
C18_NarrativeOmitsIssues ==
    ThreeFilesNoBackend =>
        /\ Contains(result.human_readable_review, <<"3"," ","f","i","l","e","(","s",")">>)
        /\ ~Contains(Lower(result.human_readable_review), <<"i","s","s","u","e">>)
        /\ _config.analysis.file_type_weights = DefaultFileTypeWeights
           => result.human_readable_review = ThreeFilesLowReview

\* C18 witness: both configured backends have failed, the last one to connect, on the text
\* of the files R, S and T, and the narrative returned is the sentence above
C18_Witness ==
    /\ ThreeFilesNoBackend
    /\ pr_diff_text = ThreeFilesDiff
    /\ Len(requests) = 2
    /\ result.analysis_metadata.llm_metadata.llm_error = ErrConnection
    /\ result.human_readable_review = ThreeFilesLowReview


(***************************************************************************)
(* Validation alone: short texts against a small configured maximum        *)
(***************************************************************************)
\* the most pieces of a text, and the max_diff_size configured for them
MaxPieces == 3
SmallDiffSize == 12

\* the pieces: six blanks, a line end, an added line and the header marker
ValidatePieces == { <<" "," "," "," "," "," ">>, <<"\n">>, <<"+","x"," ","="," ","1">>, DiffMarker }

ValidateInputs ==
    { Join(ps, <<>>) : ps \in UNION { [1..n -> ValidatePieces] : n \in 0..MaxPieces } }

ValidateConfigs ==
    { PRAnalyzerConfig(<<>>, SmallDiffSize, DefaultRiskKeywords, DefaultFileTypeWeights) }

InitValidate ==
    /\ config_file \in ValidateConfigs
    /\ pr_diff_text \in ValidateInputs
    /\ raw_response = None
    /\ answers = Unscripted
    /\ Started

SpecValidate == InitValidate /\ [][NextParse]_vars

\* the four checks, each on its own
IsEmpty(text) == Len(text) = 0
IsWhitespaceOnly(text) == \A i \in 1..Len(text) : text[i] \in Whitespace
IsOversized(text) == Len(text) > _config.analysis.max_diff_size
LacksHeader(text) == ~Contains(text, DiffMarker)

\* the reason a returned rejection reports
ReportedReason == result.notable_issues[1].issue

\* C14: the rejection reason is that of the first failing check in the order
\* empty, whitespace-only, oversized, missing header: a whitespace-only text
\* is rejected as such also when it is oversized (and it always lacks the
\* header), an oversized text as oversized also when it lacks the header;
\* a text failing no check is not rejected.
C14_FirstFailingCheckWins ==
    pc = "done" =>
        /\ IsInvalidResult(result)
           <=> \/ IsEmpty(pr_diff_text) \/ IsWhitespaceOnly(pr_diff_text)
               \/ IsOversized(pr_diff_text) \/ LacksHeader(pr_diff_text)
        /\ IsEmpty(pr_diff_text) => ReportedReason = MsgEmpty
        /\ ~IsEmpty(pr_diff_text) /\ IsWhitespaceOnly(pr_diff_text)
           => ReportedReason = MsgWhitespace
        /\ ~IsWhitespaceOnly(pr_diff_text) /\ IsOversized(pr_diff_text)
           => ReportedReason = MsgTooLarge(Len(pr_diff_text), _config.analysis.max_diff_size)
        /\ ~IsWhitespaceOnly(pr_diff_text) /\ ~IsOversized(pr_diff_text)
                                           /\ LacksHeader(pr_diff_text)
           => ReportedReason = MsgNoHeader
        /\ IsInvalidResult(result)
           => result.analysis_metadata.validation_error = ReportedReason

\* C14 witness: a text of blanks only that is longer than the maximum has
\* been rejected as whitespace-only
C14_Witness ==
    /\ pc = "done"
    /\ IsWhitespaceOnly(pr_diff_text) /\ IsOversized(pr_diff_text)
    /\ ReportedReason = MsgWhitespace
    /\ result.human_readable_review = ReviewInvalidHead \o MsgWhitespace


\* the outer handler has returned for a text validation had accepted
FailedAfterValidation ==
    /\ pc = "done"
    /\ "unexpected_error" \in DOMAIN result.analysis_metadata
    /\ result.analysis_metadata.input_valid

\* the parser's state
ParserState ==
    [current_file |-> current_file, files_changed |-> files_changed,
     notable_issues |-> notable_issues]

\* a failure on a line the loop body would have taken a file or a finding
\* from: the step differs from every step of the loop without failure
LineFailure ==
    /\ FaultLine
    /\ ParseLine(lines[line_no], ParserState, _config) # ParserState

\* C17 as stated: every unexpected failure after validation, in parsing,
\* scoring or summary generation, ends the invocation with the degraded
\* result.
C17_AnyFailureDegrades ==
    [][(LineFailure \/ FaultParse \/ FaultScore \/ FaultSummary)
       => pc' = "done" /\ IsDegradedResult(result')]_vars

\* C17: when a failure after validation reaches the handler of analyze_pr,
\* the result is the degraded one, field by field: the one file 'error',
\* score 0.5, the manual-review test, the analysis-failed label, the one
\* system issue and the error in the metadata; none of the files and
\* findings parsed before the failure is in it.  (A failure on a single
\* line is not of this kind: the loop skips the line and goes on.)
C17_DegradedResultExact ==
    /\ FailedAfterValidation =>
        /\ result.files_changed = << FileError >>
        /\ result.risk_score = Tenths(5)
        /\ result.suggested_tests = << "Manual review required" >>
        /\ result.suggested_labels = << "analysis-failed" >>
        /\ result.notable_issues =
               << [file |-> FileSystem, issue |-> IssueErrorHead \o InjectedError] >>
        /\ result.summary = SummaryError
        /\ result.human_readable_review = ReviewError
        /\ result.analysis_metadata.unexpected_error = InjectedError
        /\ "llm_metadata" \in DOMAIN result.analysis_metadata
           => result.analysis_metadata.llm_metadata = EmptyDict
    /\ pc = "done" /\ IsDegradedResult(result)
       => "unexpected_error" \in DOMAIN result.analysis_metadata

\* C17 witness: two files and a finding had been parsed when the failure
\* came, and the degraded result has been returned without them
C17_Witness ==
    /\ FailedAfterValidation
    /\ Len(files_changed) = 2
    /\ Len(notable_issues) = 1
    /\ result.files_changed = << FileError >>
    /\ Len(result.notable_issues) = 1
    /\ result.notable_issues[1].file = FileSystem


(***************************************************************************)
(* clean_ai_response alone, on texts made of a few pieces                  *)
(***************************************************************************)
\* the most pieces of a text
MaxCleanPieces == 4

\* the pieces: words, the terminal marks, white space, a banned ending and a
\* banned prefix
CleanPieces ==
    { <<"a">>, <<"b",".">>, <<".">>, <<"!">>, <<" ">>, <<"\n">>, <<"N","o","t","e",":">>, <<"H","e","r","e","'","s"," ","m","y"," ","c","o","d","e"," ","r","e","v","i","e","w",":">> }

CleanInputs ==
    { Join(ps, <<>>) : ps \in UNION { [1..n -> CleanPieces] : n \in 0..MaxCleanPieces } }

InitClean ==
    /\ config_file \in ValidateConfigs
    /\ pr_diff_text = <<>>
    /\ raw_response \in CleanInputs
    /\ answers = Unscripted
    /\ Started

\* clean_ai_response(raw_response) is called and returns
Clean ==
    /\ cleaned_result = None
    /\ cleaned_result' = clean_ai_response(raw_response)
    /\ UNCHANGED << answers, config_file, _config, pr_diff_text, pc, analysis_metadata, lines, line_no,
                    current_file, files_changed, notable_issues, summary, risk_score,
                    suggested_tests, suggested_labels, model_no, metadata, requests,
                    narrative, result, raised, calls, previous, loads, config_id, threads,
                    raw_response >>

NextClean == Clean

SpecClean == InitClean /\ [][NextClean]_vars

\* the text ends in one of the terminal marks
EndsInPunctuation(text) == Len(text) > 0 /\ text[Len(text)] \in {".", "!", "?"}

\* the text contains a banned prefix, or what one of the banned endings
\* is made of (ignoring case)
ContainsBanned(text) ==
    \/ \E i \in 1..Len(PrefixesToRemove) : Contains(text, PrefixesToRemove[i])
    \/ \E i \in 1..Len(EndingsToRemove) :
          /\ Contains(Lower(text), Lower(EndingsToRemove[i].head))
          /\ Contains(Lower(text), Lower(EndingsToRemove[i].tail))

\* two periods with nothing or only white space between them
HasDoubledPeriod(text) ==
    \E i, j \in 1..Len(text) :
        /\ i < j /\ text[i] = "." /\ text[j] = "."
        /\ \A k \in (i + 1)..(j - 1) : text[k] \in Whitespace

\* the text with every run of white space replaced by one space
RunsCollapsed(text) ==
    SubSeqAt([i \in 1..Len(text) |-> IF text[i] \in Whitespace THEN " " ELSE text[i]],
             { i \in 1..Len(text) :
                   text[i] \notin Whitespace \/ i = 1 \/ text[i - 1] \notin Whitespace })

\* the same without the white space the text begins with
RunsCollapsedFromStart(text) ==
    SubSeqAt([i \in 1..Len(text) |-> IF text[i] \in Whitespace THEN " " ELSE text[i]],
             { i \in 1..Len(text) :
                   text[i] \notin Whitespace \/ (i > 1 /\ text[i - 1] \notin Whitespace) })

\* C19 as stated: a text that ends in '.', '!' or '?' and contains no banned
\* prefix or ending comes back unchanged except that every run of white
\* space is collapsed to a single space.
C19_RoundTrip ==
    cleaned_result # None /\ EndsInPunctuation(raw_response) /\ ~ContainsBanned(raw_response)
        => cleaned_result = RunsCollapsed(raw_response)

\* C19: a text that ends in '.', '!' or '?', contains no banned prefix or
\* ending and no two periods separated by nothing or by white space only
\* comes back with its leading white space removed and every other run of
\* white space collapsed to a single space, and otherwise unchanged.
C19_RoundTripWithoutDoubledPeriod ==
    (/\ cleaned_result # None
     /\ EndsInPunctuation(raw_response)
     /\ ~ContainsBanned(raw_response)
     /\ ~HasDoubledPeriod(raw_response))
        => cleaned_result = RunsCollapsedFromStart(raw_response)

\* C19 witness: "a \nb." has come back as "a b."
C19_Witness ==
    /\ raw_response = <<"a"," ","\n","b",".">>
    /\ cleaned_result = <<"a"," ","b",".">>
    /\ ~ContainsBanned(raw_response) /\ ~HasDoubledPeriod(raw_response)


(***************************************************************************)
(* get_config on several threads.  The function tests the global, calls    *)
(* from_file() and assigns the global in separate steps, and takes no      *)
(* lock: a thread can be suspended between any two of them.                *)
(***************************************************************************)
InitThreads ==
    /\ config_file \in ConfigFiles
    /\ pr_diff_text = <<>>
    /\ raw_response = None
    /\ answers = Unscripted
    /\ Started

\* "if _config is None:" evaluated by thread t on entering get_config()
TestNone(t) ==
    /\ threads[t].pc = "idle"
    /\ threads' = [threads EXCEPT ![t].pc = IF _config = NoConfig THEN "load" ELSE "return"]
    /\ UNCHANGED << answers, config_file, _config, pr_diff_text, pc, analysis_metadata, lines, line_no,
                    current_file, files_changed, notable_issues, summary, risk_score,
                    suggested_tests, suggested_labels, model_no, metadata, requests,
                    narrative, result, raised, calls, previous, loads, config_id,
                    raw_response, cleaned_result >>

\* PRAnalyzerConfig.from_file() called by thread t: the file is read and a
\* new instance made
FromFile(t) ==
    /\ threads[t].pc = "load"
    /\ loads' = loads + 1
    /\ threads' = [threads EXCEPT ![t].pc = "store", ![t].made = loads + 1]
    /\ UNCHANGED << answers, config_file, _config, pr_diff_text, pc, analysis_metadata, lines, line_no,
                    current_file, files_changed, notable_issues, summary, risk_score,
                    suggested_tests, suggested_labels, model_no, metadata, requests,
                    narrative, result, raised, calls, previous, config_id,
                    raw_response, cleaned_result >>

\* "_config = ..." by thread t: the global holds the instance t made
AssignGlobal(t) ==
    /\ threads[t].pc = "store"
    /\ _config' = config_file
    /\ config_id' = threads[t].made
    /\ threads' = [threads EXCEPT ![t].pc = "return"]
    /\ UNCHANGED << answers, config_file, pr_diff_text, pc, analysis_metadata, lines, line_no,
                    current_file, files_changed, notable_issues, summary, risk_score,
                    suggested_tests, suggested_labels, model_no, metadata, requests,
                    narrative, result, raised, calls, previous, loads,
                    raw_response, cleaned_result >>

\* "return _config" by thread t: the instance the global holds at that time
ReturnGlobal(t) ==
    /\ threads[t].pc = "return"
    /\ threads' = [threads EXCEPT ![t].pc = "done", ![t].got = config_id]
    /\ UNCHANGED << answers, config_file, _config, pr_diff_text, pc, analysis_metadata, lines, line_no,
                    current_file, files_changed, notable_issues, summary, risk_score,
                    suggested_tests, suggested_labels, model_no, metadata, requests,
                    narrative, result, raised, calls, previous, loads, config_id,
                    raw_response, cleaned_result >>

NextThreads ==
    \E t \in Threads :
        \/ TestNone(t)
        \/ FromFile(t)
        \/ AssignGlobal(t)
        \/ ReturnGlobal(t)

SpecThreads == InitThreads /\ [][NextThreads]_vars

\* C20: across every interleaving of first invocations of get_config on
\* separate threads, the configuration file is read at most once and all
\* invocations that have returned were given the same instance.
C20_LoadedOnceSameInstance ==
    /\ loads <= 1
    /\ \A t, u \in Threads :
           threads[t].pc = "done" /\ threads[u].pc = "done" => threads[t].got = threads[u].got


\* C21: while and after an invocation whose text validation rejects, no line
\* has been parsed and no request has been posted; the result returned for
\* it has input_valid = false, parsing_success = false and an empty
\* llm_metadata.  In every returned result parsing_success implies
\* input_valid, and a non-empty llm_metadata implies parsing_success.
C21_RejectedNeverParsedNorSent ==
    /\ pc # "idle" /\ ~analysis_metadata.input_valid =>
         /\ requests = <<>>
         /\ lines = <<>> /\ line_no = 1
         /\ files_changed = <<>> /\ notable_issues = <<>>
         /\ ~analysis_metadata.parsing_success
    /\ pc = "done" /\ "validation_error" \in DOMAIN result.analysis_metadata =>
         /\ IsInvalidResult(result)
         /\ ~result.analysis_metadata.input_valid
         /\ ~result.analysis_metadata.parsing_success
         /\ result.analysis_metadata.llm_metadata = EmptyDict
    /\ pc = "done" =>
         /\ result.analysis_metadata.parsing_success => result.analysis_metadata.input_valid
         /\ result.analysis_metadata.llm_metadata # EmptyDict
            => result.analysis_metadata.parsing_success

\* C21 witness: with two backends configured, a text without header has been
\* rejected and returned without a request and with the empty llm_metadata
C21_Witness ==
    /\ pc = "done"
    /\ Len(_config.ollama.models) = 2
    /\ pr_diff_text # <<>>
    /\ "validation_error" \in DOMAIN result.analysis_metadata
    /\ result.analysis_metadata.validation_error = MsgNoHeader
    /\ ~result.analysis_metadata.input_valid
    /\ result.analysis_metadata.llm_metadata = EmptyDict
    /\ requests = <<>>


(***************************************************************************)
(* The backends' answers settled beforehand: what each configured backend  *)
(* is going to answer is an input of the invocation                        *)
(***************************************************************************)
\* the errors a backend can fail with
BackendErrors ==
    { ErrConnection, ErrTimeout, ErrNoResponseKey }
    \cup { ErrHttpHead \o IntToStr(status) : status \in ErrorStatuses }

\* one answer for each backend that can be configured: the error it fails
\* with, or None when it answers 200 with a "response"
Scripts ==
    { [scripted |-> TRUE, answer |-> a] :
          a \in [1..MaxModels -> BackendErrors \cup {None}] }

\* the texts of these invocations: the repeated ones and one that scores 0.7
BackendInputs ==
    RepeatInputs \cup { <<"d","i","f","f"," ","-","-","g","i","t"," ","a","/","x",".","p","y"," ","b","/","x",".","p","y","\n","+","#"," ","f","i","x","m","e","\n","+","#"," ","T","O","D","O",":"," ","x">> }

InitBackends ==
    /\ config_file \in ConfigFiles
    /\ pr_diff_text \in BackendInputs
    /\ raw_response = None
    /\ answers \in Scripts
    /\ Started

SpecBackends == InitBackends /\ [][Next]_vars

\* get_llm_summary has returned: its metadata is in the result
SummaryReturned == pc = "done" /\ result.analysis_metadata.parsing_success

\* the backends that were asked and failed, by their place in the list
FailedBackends == { i \in 1..Len(requests) : answers.answer[i] # None }

\* C22: when get_llm_summary returns, llm_used is the backend of the last
\* request (None exactly when no backend is configured), llm_success is true
\* exactly when the returned text is a backend's, and llm_error is the error
\* of the last backend that failed: None exactly when none failed, and the
\* earlier backend's error still when a later backend has answered.
C22_MetadataOfLastAttempt ==
    SummaryReturned =>
        \E m \in { result.analysis_metadata.llm_metadata } :
            /\ \A i \in 1..Len(requests) :
                   requests[i].outcome = "failed" <=> i \in FailedBackends
            /\ requests # <<>> => m.llm_used = Models[Len(requests)]
            /\ requests = <<>> => m.llm_used = None
            /\ requests = <<>> <=> Models = <<>>
            /\ m.llm_success <=> narrative = "backend"
            /\ m.llm_success <=> (requests # <<>> /\ answers.answer[Len(requests)] = None)
            /\ m.llm_error = None <=> FailedBackends = {}
            /\ FailedBackends # {} =>
                   m.llm_error =
                       answers.answer[CHOOSE i \in FailedBackends :
                                          \A j \in FailedBackends : j <= i]

\* C22 witness: the first backend timed out and the second answered; the
\* metadata names the second backend, reports success and still holds the
\* first one's error
C22_Witness ==
    /\ SummaryReturned
    /\ Len(requests) = 2
    /\ answers.answer[1] = ErrTimeout
    /\ answers.answer[2] = None
    /\ result.analysis_metadata.llm_metadata.llm_used = Models[2]
    /\ result.analysis_metadata.llm_metadata.llm_success
    /\ result.analysis_metadata.llm_metadata.llm_error = ErrTimeout


\* the labels of the result are the high-risk pair
HighLabels == result.suggested_labels = <<"high-risk", "security-review">>

\* the integration tests are suggested and the labels are not that pair
MediumSuggestions ==
    InList("Run integration tests", result.suggested_tests) /\ ~HighLabels

\* C23: in a result made from a scored diff the risk level is the same
\* wherever it is told: the label in the prompt of every request is 'high'
\* iff the fallback narrative, when that is the review, says 'High risk' iff
\* the labels are ['high-risk', 'security-review'] iff the score is above
\* 0.7; it is 'medium' iff the narrative says 'Medium risk' iff 'Run
\* integration tests' is suggested without the high-risk labels iff the
\* score is above 0.3 and at most 0.7; otherwise the label is 'low' and the
\* narrative says 'Low risk'.
C23_OneRiskLevel ==
    SummaryReturned =>
        /\ HighLabels <=> result.risk_score > Tenths(7)
        /\ MediumSuggestions
           <=> (result.risk_score > Tenths(3) /\ result.risk_score <= Tenths(7))
        /\ \A i \in 1..Len(requests) :
               /\ requests[i].prompt.risk_level \in {"high", "medium", "low"}
               /\ requests[i].prompt.risk_level = "high" <=> HighLabels
               /\ requests[i].prompt.risk_level = "medium" <=> MediumSuggestions
        /\ narrative = "fallback" =>
               /\ Contains(result.human_readable_review, <<"H","i","g","h"," ","r","i","s","k">>) <=> HighLabels
               /\ Contains(result.human_readable_review, <<"M","e","d","i","u","m"," ","r","i","s","k">>)
                  <=> MediumSuggestions
               /\ Contains(result.human_readable_review, <<"L","o","w"," ","r","i","s","k">>)
                  <=> (~HighLabels /\ ~MediumSuggestions)

\* C23 witness: a diff scored exactly 0.7 went to two backends as 'medium',
\* both failed, and the narrative says 'Medium risk' beside the
\* integration tests and the needs-review label
C23_Witness ==
    /\ SummaryReturned
    /\ narrative = "fallback"
    /\ result.risk_score = Tenths(7)
    /\ Len(requests) = 2
    /\ requests[1].prompt.risk_level = "medium"
    /\ requests[2].prompt.risk_level = "medium"
    /\ Contains(result.human_readable_review, <<"M","e","d","i","u","m"," ","r","i","s","k">>)
    /\ MediumSuggestions
    /\ result.suggested_labels = <<"needs-review">>

(***************************************************************************)
(* Scoring when no backend is configured                                   *)
(***************************************************************************)
\* analyze_pr on every modelled text under the configurations without a
\* model: the score and the labels do not depend on the backends, and the
\* review is the fallback narrative
InitScore ==
    /\ config_file \in { c \in ConfigFiles : c.ollama.models = <<>> }
    /\ pr_diff_text \in Inputs
    /\ raw_response = None
    /\ answers = Unscripted
    /\ Started

SpecScore == InitScore /\ [][NextParse]_vars
=============================================================================